---- MODULE Spec2Model ----
(***************************************************************************)
(* A model of unixpickle/muniverse-agent: the rollout-gathering worker     *)
(* pools and the TRPO / PPO training loops around them, the Env wrapper,   *)
(* the KeyActor, the observers and the ObsJoiner.                          *)
(*                                                                         *)
(* Every part is its own specification over the same variables; the parts  *)
(* a specification does not use stay at their initial values.              *)
(***************************************************************************)
EXTENDS Integers, Sequences, FiniteSets, TLC

(***************************************************************************)
(* Bounds of the model.                                                    *)
(***************************************************************************)
MaxWorkers == 2
MaxBatchSize == 2
MaxBatchSteps == 3
MaxEpLen == 2
MaxBatches == 2
MaxEpochs == 1
MaxKeys == 2
MaxHistory == 2
MaxFrameLen == 2
MaxStepsCap == 2
MaxStride == 3
MaxIn == 4
MaxDelta == 90
MaxWidth == 12
MaxHeight == 10
MaxUpdates == 2
MaxRecs == 2
MaxRecLen == 2
MaxSpecs == 3
MaxLayers == 3
MaxFed == 3
MaxEvents == 3

VARIABLES
    \* ---- configuration, fixed at process start
    algo,            \* "trpo" | "ppo" | "a3c": the sub-command
    NumParallel,     \* flags.NumParallel
    BatchSize,       \* spec.BatchSize
    BatchSteps,      \* flags.BatchSteps (PPO)
    Epochs,          \* flags.Epochs (PPO)
    \* ---- the training goroutine
    tpc,             \* its position
    batchIdx,        \* the loop counter of the training loop
    spawnIdx,        \* i of the spawning loop in the gather call
    epochIdx,        \* i of PPO's epoch loop
    params,          \* number of AddToVars applied to the shared policy
    trainLock,       \* holder of trainLock: "free" | "train"
    rollouts,        \* what the last gather call returned
    \* ---- locals of the gather call
    requests,        \* buffer of the requests channel (token ids)
    requestsClosed,  \* requests was closed
    closeCount,      \* close(requests) executed so far in this call
    resChan,         \* buffer of resChan
    resChanClosed,   \* resChan was closed
    wg,              \* the WaitGroup counter
    res,             \* trajectories received so far
    numSteps,        \* steps received so far (PPO)
    closed,          \* the coordinator's closed flag (PPO)
    \* ---- the goroutines of the gather call
    wpc,             \* worker -> position
    witem,           \* worker -> its token and the rollout made for it
    wpv,             \* worker -> params at the start of its episode
    rolled,          \* episodes completed in this call
    closerPc,        \* the goroutine that waits on wg and closes resChan
    panicked,        \* "" or the runtime panic that ended the process
    \* ---- shutdown, failures and the checkpoint files
    signal,          \* the shutdown signal has been raised
    mainPc,          \* the main goroutine: "wait" | "lock" | "exited"
    died,            \* "" or what essentials.Die was called with
    filePolicy,      \* params as of the policy file last written, -1 if none
    fileCritic,      \* params as of the critic file last written, -1 if none
    savedAfter,      \* a policy file was written after the signal
    tookAfter,       \* a worker started an episode after the signal
    \* ---- the saver goroutine of A3C
    spc,             \* where the saver goroutine is
    local,           \* the agent paramServer.LocalCopy() returned
    saveBuf,         \* what SaveAny has serialized so far, -1 if nothing
    saveFinal,       \* the running saveA3C is the one of the signal case
    callAfter,       \* the running saveA3C was called after the signal
    \* ---- the Envs of the workers of a gather call
    wenv,            \* worker -> the Env its NewEnv call returned
    envCount,        \* NewEnv calls of this gather call
    wclosed,         \* worker -> the RawEnv.Close() calls on its Env
    \* ---- KeyActor
    Keys,            \* KeyActor.Keys
    NoHold,          \* KeyActor.NoHold
    keyReset,        \* KeyActor.Reset has made the pressed map
    pressed,         \* KeyActor.pressed: the keys the map holds true
    keyVec,          \* the vector of the last Events call (tenths), <<>> if none
    keyPrev,         \* the vector of the Events call before it, <<>> if none
    keyEvents,       \* what the last Events call returned
    \* ---- ObsJoiner
    HistorySize,     \* ObsJoiner.HistorySize
    FrameLen,        \* length of the vectors the Observer makes
    joinReady,       \* ObsJoiner.Reset has been called
    hist,            \* ObsJoiner.hist, oldest frame first
    joined,          \* what the last ObsJoiner.Step returned
    joinHist,        \* hist when ObsJoiner.Step was last called
    joinCur,         \* the frame ObsJoiner.Step was last called with
    resetObs,        \* the frame of the last Reset, until a second Step follows it
    \* ---- Env
    MaxSteps,        \* Env.MaxSteps
    timestep,        \* Env.timestep
    envPhase,        \* "new" | "episode" (last Reset succeeded) | "failed"
    envRet,          \* what the last Reset or Step returned
    stepsOk,         \* successful Steps since the last successful Reset
    rawSteps,        \* RawEnv.Step calls the last call of the Env made
    doneSeen,        \* a Step of this episode has returned done
    rawDone,         \* done as RawEnv.Step reported it to the last Step
    RewardScale,     \* EnvSpec.RewardScale of the spec the Env was made from
    rawReward,       \* the reward RawEnv.Step reported to the last Step
    actorKind,       \* the Actor of the Env: "key" (KeyActor) | "mouse" (MouseActor)
    usedBefore,      \* the last Reset found a used Env: steps counted, a key or
                     \* the button held, the cursor moved
    \* ---- DownsampleObserver / AverageObserver
    obsKind,         \* "downsample" | "average"
    StrideX,
    StrideY,
    InWidth,
    InHeight,
    Color,
    bufSeed,         \* the RGB buffer of the raw observation, see Buffer
    obsSize,         \* what the last ObsSize call returned, <<>> if none
    obsVecDone,      \* ObsVec has returned a vector
    obsVecOut,       \* the vector the last ObsVec call returned
    \* ---- MouseActor: actor A is driven with Events, actor B with Vectorize
    Width,           \* MouseActor.Width, of both actors
    Height,          \* MouseActor.Height, of both actors
    mouseNoHold,     \* MouseActor.NoHold, of both actors
    mouseTurn,       \* "new" | "events" (A is next) | "vectorize" (B is next)
    mousePressed,    \* A.pressed
    lastX,           \* A.lastX
    lastY,           \* A.lastY
    bPressed,        \* B.pressed
    bLastX,          \* B.lastX
    bLastY,          \* B.lastY
    mouseVec,        \* the vector of A's last Events call
    mouseFrom,       \* A's cursor before its last Events call
    mouseEvents,     \* what A's last Events call returned
    mouseOut,        \* what B's last Vectorize call returned
    closeIn,         \* the delta closestOption was last called with
    closeOut,        \* what that call returned, -1 if none
    \* ---- Trainer.Fetch
    samples,         \* the recordings behind the sample list s
    fpc,             \* where the Fetch call is
    fOpened,         \* recordings opened so far (each with its Actor, Reset)
    fTapes,          \* the two tapes have been created
    fi,              \* the timestep index i of the outer loop
    inTape,          \* what was sent to inWriter, in order
    outTape,         \* what was sent to outWriter, in order
    fHists,          \* recording -> hist of its ObsJoiner
    fLog,            \* recording -> the steps its Actor has vectorized, in order
    fRet,            \* what Fetch returned
    \* ---- the start of a sub-command
    EnvSpecs,        \* the registry: the Name of each entry, in order
    EnvName,         \* flags.EnvName, "" when -env is missing
    cmd,             \* the sub-command: "trpo" | "ppo" | "a3c" | "clone"
    startPc,         \* where the sub-command is
    startSpec,       \* the entry MustSpecForName returned, 0 for nil
    startDied,       \* <<>> or what essentials.Die was called with
    startLoaded,     \* LoadOrMakeAgent has read the checkpoint files
    startEnvs,       \* environments created so far
    startGo,         \* the training or saver goroutine has been started
    \* ---- MakeAgent and DecomposeAgent
    agPolicy,        \* the policy block MakeAgent is called with
    agCritic,        \* the critic block MakeAgent is called with
    agPc,            \* "make" | "decompose" | "done" | "panic"
    agAgent,         \* the agent MakeAgent returned
    agOut,           \* what DecomposeAgent returned
    agHeap,          \* layer object -> updates its parameters have got
    agEpochs,        \* flags.Epochs of the PPO loop over the agent
    agBatch,         \* batchIdx of that loop
    agEpoch,         \* i of its epoch loop
    agFiles,         \* what the policy file and the critic file hold
    \* ---- ObsJoiner driven by a recorded sequence of frames
    fed,             \* the frames given to the joiner since Reset: o_0, o_1, ..., o_n
    \* ---- MouseActor in either mode
    Discrete,        \* MouseActor.Discrete
    \* ---- two KeyActors in lock-step
    keyTurn,         \* whose call is next: "none" | "new" | "events" | "vectorize"
    OneHot,          \* KeyActor.OneHot
    keyLast,         \* key -> the type of the last event A emitted for it since Reset
    keyB,            \* B.pressed: the keys the map of B holds true
    keyOut           \* what the last B.Vectorize returned, <<>> if none

trainVars == <<algo, NumParallel, BatchSize, BatchSteps, Epochs, tpc, batchIdx,
               spawnIdx, epochIdx, params, trainLock, rollouts, requests,
               requestsClosed, closeCount, resChan, resChanClosed, wg, res,
               numSteps, closed, wpc, witem, wpv, rolled,
               closerPc, panicked, signal, mainPc, died, filePolicy,
               fileCritic, savedAfter, tookAfter, spc, local, saveBuf,
               saveFinal, callAfter, wenv, envCount, wclosed>>

saverVars == <<spc, local, saveBuf, saveFinal, callAfter>>

ownVars == <<wenv, envCount, wclosed>>

shutVars == <<signal, mainPc, died, filePolicy, fileCritic, savedAfter, tookAfter,
              saverVars>>

cfgVars == <<algo, NumParallel, BatchSize, BatchSteps, Epochs>>
loopVars == <<batchIdx, epochIdx, params, trainLock, rollouts>>
reqVars == <<requests, requestsClosed, closeCount>>
resVars == <<resChan, resChanClosed>>
coordVars == <<res, numSteps, closed>>
workerVars == <<wpc, witem, wpv, rolled>>

keyVars == <<Keys, NoHold, keyReset, pressed, keyVec, keyPrev, keyEvents>>

joinVars == <<HistorySize, FrameLen, joinReady, hist, joined, joinHist, joinCur,
              resetObs>>
envVars == <<MaxSteps, timestep, envPhase, envRet, stepsOk, doneSeen, rawDone,
             RewardScale, rawReward, rawSteps,
             actorKind, usedBefore>>

obsVars == <<obsKind, StrideX, StrideY, InWidth, InHeight, Color, bufSeed,
             obsSize, obsVecDone, obsVecOut>>

mouseVars == <<Width, Height, mouseNoHold, mouseTurn, mousePressed, lastX,
               lastY, bPressed, bLastX, bLastY, mouseVec, mouseFrom,
               mouseEvents, mouseOut, closeIn, closeOut>>

fetchVars == <<samples, fpc, fOpened, fTapes, fi, inTape, outTape, fHists, fLog,
               fRet>>

startVars == <<EnvSpecs, EnvName, cmd, startPc, startSpec, startDied,
               startLoaded, startEnvs, startGo>>

agentVars == <<agPolicy, agCritic, agPc, agAgent, agOut, agHeap, agEpochs,
               agBatch, agEpoch, agFiles>>

winVars == <<fed>>

cursorVars == <<Discrete>>

keyPairVars == <<keyTurn, OneHot, keyLast, keyB, keyOut>>

\* The parts added to the model after the ones above.
restVars == <<fetchVars, startVars, agentVars, winVars, cursorVars, keyPairVars>>

vars == <<trainVars, keyVars, joinVars, envVars, obsVars, mouseVars, restVars>>

\* The variables the training specifications leave alone.
notTrain == <<keyVars, joinVars, envVars, obsVars, mouseVars, restVars>>

Workers == 1..MaxWorkers

\* The agent of a saver that has made no copy.
NoAgent == [shared |-> FALSE, val |-> -1]
NoItem == [tok |-> 0, len |-> 0]

\* The Env of a worker that has made none.
NoEnv == [raw |-> 0, actor |-> 0, joiner |-> 0]

\* The variables the KeyActor specification leaves alone.
notKey == <<trainVars, joinVars, envVars, obsVars, mouseVars, restVars>>

\* The variables the ObsJoiner specification leaves alone.
notJoin == <<trainVars, keyVars, envVars, obsVars, mouseVars, restVars>>

\* The variables the Env specification leaves alone.
notEnv == <<trainVars, obsVars, restVars>>

\* The variables the observer specification leaves alone.
notObs == <<trainVars, keyVars, joinVars, envVars, mouseVars, restVars>>

\* The variables the MouseActor specifications leave alone.
notMouse == <<trainVars, keyVars, joinVars, envVars, obsVars, restVars>>

\* What a call that has not happened returned.
NoRet == [op |-> "none", obs |-> <<>>, reward |-> 0, done |-> FALSE, err |-> <<>>]

\* What a Fetch call that has not returned has returned.
NoFetch == [batch |-> "none", err |-> <<>>]

\* The parts at rest, for the specifications that do not use them.
IdleFetch ==
    /\ samples = <<>>
    /\ fpc = "none"
    /\ fOpened = 0
    /\ fTapes = FALSE
    /\ fi = 0
    /\ inTape = <<>>
    /\ outTape = <<>>
    /\ fHists = <<>>
    /\ fLog = <<>>
    /\ fRet = NoFetch

IdleStart ==
    /\ EnvSpecs = <<>>
    /\ EnvName = ""
    /\ cmd = "none"
    /\ startPc = "none"
    /\ startSpec = 0
    /\ startDied = <<>>
    /\ startLoaded = FALSE
    /\ startEnvs = 0
    /\ startGo = FALSE

IdleAgent ==
    /\ agPolicy = <<>>
    /\ agCritic = 0
    /\ agPc = "none"
    /\ agAgent = <<>>
    /\ agOut = <<>>
    /\ agHeap = <<>>
    /\ agEpochs = 0
    /\ agBatch = 0
    /\ agEpoch = 0
    /\ agFiles = <<>>

IdleWindow ==
    /\ fed = <<>>

IdleCursor ==
    /\ Discrete = FALSE

IdleKeyPair ==
    /\ keyTurn = "none"
    /\ OneHot = FALSE
    /\ keyLast = [k \in {"Left", "Right", "Space"} |-> "none"]
    /\ keyB = {}
    /\ keyOut = <<>>

IdleRest == IdleFetch /\ IdleStart /\ IdleAgent /\ IdleWindow /\ IdleCursor /\ IdleKeyPair

IdleTrain ==
    /\ algo = "none"
    /\ NumParallel = 0
    /\ BatchSize = 0
    /\ BatchSteps = 0
    /\ Epochs = 0
    /\ tpc = "none"
    /\ batchIdx = 0
    /\ spawnIdx = 0
    /\ epochIdx = 0
    /\ params = 0
    /\ trainLock = "free"
    /\ rollouts = <<>>
    /\ requests = <<>>
    /\ requestsClosed = FALSE
    /\ closeCount = 0
    /\ resChan = <<>>
    /\ resChanClosed = FALSE
    /\ wg = 0
    /\ res = <<>>
    /\ numSteps = 0
    /\ closed = FALSE
    /\ wpc = [w \in Workers |-> "none"]
    /\ witem = [w \in Workers |-> NoItem]
    /\ wpv = [w \in Workers |-> 0]
    /\ rolled = 0
    /\ closerPc = "none"
    /\ panicked = ""
    /\ signal = FALSE
    /\ mainPc = "none"
    /\ died = ""
    /\ filePolicy = -1
    /\ fileCritic = -1
    /\ savedAfter = FALSE
    /\ tookAfter = FALSE
    /\ spc = "none"
    /\ local = NoAgent
    /\ saveBuf = -1
    /\ saveFinal = FALSE
    /\ callAfter = FALSE
    /\ wenv = [w \in Workers |-> NoEnv]
    /\ envCount = 0
    /\ wclosed = [w \in Workers |-> 0]

NoVec == [press |-> 0, opt |-> -1]

IdleMouse ==
    /\ Width = 0
    /\ Height = 0
    /\ mouseNoHold = FALSE
    /\ mouseTurn = "none"
    /\ mousePressed = FALSE
    /\ lastX = 0
    /\ lastY = 0
    /\ bPressed = FALSE
    /\ bLastX = 0
    /\ bLastY = 0
    /\ mouseVec = NoVec
    /\ mouseFrom = <<0, 0>>
    /\ mouseEvents = <<>>
    /\ mouseOut = NoVec
    /\ closeIn = <<0, 0>>
    /\ closeOut = -1

IdleObs ==
    /\ obsKind = "none"
    /\ StrideX = 1
    /\ StrideY = 1
    /\ InWidth = 0
    /\ InHeight = 0
    /\ Color = FALSE
    /\ bufSeed = 0
    /\ obsSize = <<>>
    /\ obsVecDone = FALSE
    /\ obsVecOut = <<>>

IdleJoin ==
    /\ HistorySize = 0
    /\ FrameLen = 0
    /\ joinReady = FALSE
    /\ hist = <<>>
    /\ joined = <<>>
    /\ joinHist = <<>>
    /\ joinCur = <<>>
    /\ resetObs = <<>>

IdleEnv ==
    /\ MaxSteps = 0
    /\ timestep = 0
    /\ envPhase = "none"
    /\ actorKind = "none"
    /\ usedBefore = FALSE
    /\ envRet = NoRet
    /\ stepsOk = 0
    /\ doneSeen = FALSE
    /\ rawDone = FALSE
    /\ RewardScale = 0
    /\ rawReward = 0
    /\ rawSteps = 0

IdleKey ==
    /\ Keys = <<>>
    /\ NoHold = FALSE
    /\ keyReset = FALSE
    /\ pressed = {}
    /\ keyVec = <<>>
    /\ keyPrev = <<>>
    /\ keyEvents = <<>>

(***************************************************************************)
(* The training loops (TRPO, PPO) and their gather calls.                  *)
(***************************************************************************)

\* Mutant of Tokens: the pre-fill loop stops one token early.
TokensShort(n) == [i \in 1..(n - 1) |-> IF algo = "trpo" THEN i ELSE 0]

\* The loop that pre-fills the requests channel with n tokens. A token is a
\* struct{}; the model numbers TRPO's tokens 1..n to follow each of them, and
\* leaves PPO's, which are re-queued without end, unnumbered (0).
Tokens(n) == [i \in 1..n |-> IF algo = "trpo" THEN i ELSE 0]

\* The capacity requests is made with.
RequestsCap == IF algo = "ppo" THEN NumParallel ELSE BatchSize

\* Mutant of InitialTokens: one token per worker, whatever the sub-command.
InitialTokensPerWorker == NumParallel

\* What requests holds when the workers are spawned: TRPO fills it with
\* BatchSize tokens and closes it, PPO fills it with NumParallel tokens.
InitialTokens == IF algo = "ppo" THEN NumParallel ELSE BatchSize

\* PPO uses spec.BatchSize only as the capacity of resChan: it is drawn
\* unbuffered or with a buffer of one, which the workers can fill.
InitTrain ==
    /\ IdleRest
    /\ IdleMouse
    /\ algo \in {"trpo", "ppo"}
    /\ NumParallel \in 1..MaxWorkers
    /\ BatchSize \in IF algo = "ppo" THEN {0, 1} ELSE 0..MaxBatchSize
    /\ BatchSteps \in IF algo = "ppo" THEN 0..MaxBatchSteps ELSE {0}
    /\ Epochs = (IF algo = "ppo" THEN MaxEpochs ELSE 0)
    /\ tpc = "loop"
    /\ batchIdx = 0
    /\ spawnIdx = 0
    /\ epochIdx = 0
    /\ params = 0
    /\ trainLock = "free"
    /\ rollouts = <<>>
    /\ requests = <<>>
    /\ requestsClosed = FALSE
    /\ closeCount = 0
    /\ resChan = <<>>
    /\ resChanClosed = FALSE
    /\ wg = 0
    /\ res = <<>>
    /\ numSteps = 0
    /\ closed = FALSE
    /\ wpc = [w \in Workers |-> "none"]
    /\ witem = [w \in Workers |-> NoItem]
    /\ wpv = [w \in Workers |-> 0]
    /\ rolled = 0
    /\ closerPc = "none"
    /\ panicked = ""
    /\ signal = FALSE
    /\ mainPc = "wait"
    /\ died = ""
    /\ filePolicy = -1
    /\ fileCritic = -1
    /\ savedAfter = FALSE
    /\ tookAfter = FALSE
    /\ spc = "none"
    /\ local = NoAgent
    /\ saveBuf = -1
    /\ saveFinal = FALSE
    /\ callAfter = FALSE
    /\ wenv = [w \in Workers |-> NoEnv]
    /\ envCount = 0
    /\ wclosed = [w \in Workers |-> 0]
    /\ IdleKey
    /\ IdleJoin
    /\ IdleEnv
    /\ IdleObs

Running == panicked = "" /\ died = "" /\ mainPc # "exited"

\* The training loop calls the gather function: the channels are made and
\* requests is pre-filled (and, for TRPO, closed at once).
GatherMake ==
    /\ Running
    /\ tpc = "loop"
    /\ batchIdx < MaxBatches
    /\ tpc' = "g_spawn"
    /\ requests' = Tokens(InitialTokens)
    /\ requestsClosed' = (algo = "trpo")
    /\ closeCount' = IF algo = "trpo" THEN 1 ELSE 0
    /\ resChan' = <<>>
    /\ resChanClosed' = FALSE
    /\ wg' = 0
    /\ res' = <<>>
    /\ numSteps' = 0
    /\ closed' = FALSE
    /\ spawnIdx' = 0
    /\ wpc' = [w \in Workers |-> "none"]
    /\ witem' = [w \in Workers |-> NoItem]
    /\ wpv' = [w \in Workers |-> 0]
    /\ rolled' = 0
    /\ closerPc' = "none"
    /\ rollouts' = <<>>
    /\ wenv' = [w \in Workers |-> NoEnv]
    /\ envCount' = 0
    /\ wclosed' = [w \in Workers |-> 0]
    /\ UNCHANGED <<cfgVars, batchIdx, epochIdx, params, trainLock, panicked,
                   shutVars, notTrain>>

\* Mutant of NewEnv: the Envs are given one Actor between them.
NewEnvSharedActor(k) == [raw |-> k, actor |-> 1, joiner |-> k]

\* NewEnv, called for the k-th time: a RawEnv from muniverse.NewEnvOptions,
\* an Actor from spec.MakeActor() and an ObsJoiner, all new.
NewEnv(k) == [raw |-> k, actor |-> k, joiner |-> k]

\* One turn of the spawning loop: wg.Add(1); go worker. The worker's NewEnv
\* touches nothing but its own Env and is taken with its start.
GatherSpawn ==
    /\ Running
    /\ tpc = "g_spawn"
    /\ spawnIdx < NumParallel
    /\ spawnIdx' = spawnIdx + 1
    /\ wg' = wg + 1
    /\ wpc' = [wpc EXCEPT ![spawnIdx + 1] = "range"]
    /\ wenv' = [wenv EXCEPT ![spawnIdx + 1] = NewEnv(envCount + 1)]
    /\ envCount' = envCount + 1
    /\ UNCHANGED <<cfgVars, loopVars, reqVars, resVars, coordVars, tpc, witem,
                   wpv, rolled, closerPc, panicked, shutVars, wclosed, notTrain>>

\* The spawning loop is over: go func() { wg.Wait(); close(resChan) }.
GatherCloser ==
    /\ Running
    /\ tpc = "g_spawn"
    /\ spawnIdx >= NumParallel
    /\ tpc' = "g_recv"
    /\ closerPc' = "wait"
    /\ UNCHANGED <<cfgVars, loopVars, reqVars, resVars, coordVars, workerVars,
                   spawnIdx, wg, panicked, shutVars, ownVars, notTrain>>

\* wg.Wait() returns once the counter is zero; then close(resChan).
CloserClose ==
    /\ Running
    /\ closerPc = "wait"
    /\ wg = 0
    /\ closerPc' = "done"
    /\ IF resChanClosed
         THEN panicked' = "close of closed channel" /\ UNCHANGED resChanClosed
         ELSE resChanClosed' = TRUE /\ UNCHANGED panicked
    /\ UNCHANGED <<cfgVars, loopVars, reqVars, coordVars, workerVars, tpc,
                   spawnIdx, wg, resChan, shutVars, ownVars, notTrain>>

\* for _ = range requests: a token is received and roller.Rollout(env)
\* starts, against the policy as it is now.
WorkerTake(w) ==
    /\ Running
    /\ wpc[w] = "range"
    /\ requests # <<>>
    /\ requests' = Tail(requests)
    /\ witem' = [witem EXCEPT ![w] = [tok |-> Head(requests), len |-> 0]]
    /\ wpv' = [wpv EXCEPT ![w] = params]
    /\ wpc' = [wpc EXCEPT ![w] = "rollout"]
    /\ tookAfter' = (tookAfter \/ signal)
    /\ UNCHANGED <<cfgVars, loopVars, resVars, coordVars, tpc, spawnIdx, wg,
                   requestsClosed, closeCount, rolled, closerPc,
                   panicked, signal, mainPc, died,
                   filePolicy, fileCritic, savedAfter, saverVars,
                   ownVars, notTrain>>

\* Mutant of DeferredClose: the worker returns without closing its RawEnv.
DeferredCloseNone(n) == n

\* defer env.RawEnv.Close(), run when the worker function returns: one more
\* Close call on the worker's RawEnv.
DeferredClose(n) == n + 1

\* range requests ends (closed and drained): the deferred env.RawEnv.Close()
\* and wg.Done() run and the worker goroutine exits.
WorkerExit(w) ==
    /\ Running
    /\ wpc[w] = "range"
    /\ requests = <<>>
    /\ requestsClosed
    /\ wpc' = [wpc EXCEPT ![w] = "exited"]
    /\ wclosed' = [wclosed EXCEPT ![w] = DeferredClose(wclosed[w])]
    /\ wg' = wg - 1
    /\ UNCHANGED <<cfgVars, loopVars, reqVars, resVars, coordVars, tpc,
                   spawnIdx, witem, wpv, rolled, closerPc, panicked,
                   shutVars, wenv, envCount, notTrain>>

\* The episode lengths of the model. TRPO's gather call never reads the
\* length of a trajectory, so one length stands for all of them there.
EpLens == IF algo = "ppo" THEN 1..MaxEpLen ELSE {1}

\* roller.Rollout returns a trajectory (no error): an episode of n steps.
WorkerRollout(w) ==
    /\ Running
    /\ wpc[w] = "rollout"
    /\ \E n \in EpLens :
         witem' = [witem EXCEPT ![w] = [tok |-> witem[w].tok, len |-> n]]
    /\ rolled' = rolled + 1
    /\ wpv' = [wpv EXCEPT ![w] = 0]
    /\ wpc' = [wpc EXCEPT ![w] = "send"]
    /\ UNCHANGED <<cfgVars, loopVars, reqVars, resVars, coordVars, tpc,
                   spawnIdx, wg, closerPc, panicked, shutVars, ownVars, notTrain>>

\* resChan <- rollout, into the buffer (capacity spec.BatchSize).
WorkerSend(w) ==
    /\ Running
    /\ wpc[w] = "send"
    /\ IF resChanClosed
         THEN /\ panicked' = "send on closed channel"
              /\ UNCHANGED <<resChan, wpc, witem>>
         ELSE /\ Len(resChan) < BatchSize
              /\ resChan' = Append(resChan, witem[w])
              /\ wpc' = [wpc EXCEPT ![w] = "range"]
              /\ witem' = [witem EXCEPT ![w] = NoItem]
              /\ UNCHANGED panicked
    /\ UNCHANGED <<cfgVars, loopVars, reqVars, coordVars, tpc, spawnIdx, wg,
                   resChanClosed, wpv, rolled, closerPc, shutVars, ownVars, notTrain>>

\* Mutant of AfterItem: the closed flag is not consulted.
AfterItemNoFlag(ns) ==
    IF algo = "trpo" THEN "g_recv"
    ELSE IF ns < BatchSteps THEN "g_send"
    ELSE "g_close"

\* Mutant of AfterItem: the threshold is taken as crossed one step early.
AfterItemEarly(ns) ==
    IF algo = "trpo" THEN "g_recv"
    ELSE IF ns + 1 < BatchSteps THEN "g_send"
    ELSE IF ~closed THEN "g_close"
    ELSE "g_recv"

\* Where the coordinator goes after it has added an item, ns being the new
\* numSteps: TRPO only logs; PPO re-queues a token below the threshold and
\* closes requests, once, at or above it.
AfterItem(ns) ==
    IF algo = "trpo" THEN "g_recv"
    ELSE IF ns < BatchSteps THEN "g_send"
    ELSE IF ~closed THEN "g_close"
    ELSE "g_recv"

\* The body of "for item := range resChan" up to its channel operation.
CoordHandle(item) ==
    /\ res' = Append(res, item)
    /\ numSteps' = IF algo = "ppo" THEN numSteps + item.len ELSE numSteps
    /\ tpc' = AfterItem(IF algo = "ppo" THEN numSteps + item.len ELSE numSteps)
    /\ UNCHANGED closed

\* range resChan receives the oldest buffered item.
CoordRecv ==
    /\ Running
    /\ tpc = "g_recv"
    /\ resChan # <<>>
    /\ resChan' = Tail(resChan)
    /\ CoordHandle(Head(resChan))
    /\ UNCHANGED <<cfgVars, loopVars, reqVars, workerVars, spawnIdx, wg,
                   resChanClosed, closerPc, panicked, shutVars, ownVars, notTrain>>

\* resChan is unbuffered (spec.BatchSize = 0): the receive meets the send of
\* a worker blocked in "resChan <- rollout".
CoordRecvFrom(w) ==
    /\ Running
    /\ tpc = "g_recv"
    /\ BatchSize = 0
    /\ ~resChanClosed
    /\ wpc[w] = "send"
    /\ CoordHandle(witem[w])
    /\ wpc' = [wpc EXCEPT ![w] = "range"]
    /\ witem' = [witem EXCEPT ![w] = NoItem]
    /\ UNCHANGED <<cfgVars, loopVars, reqVars, resVars, spawnIdx, wg, wpv, rolled, closerPc, panicked, shutVars, ownVars, notTrain>>

\* PPO, below the threshold: requests <- struct{}{}.
CoordSend ==
    /\ Running
    /\ tpc = "g_send"
    /\ IF requestsClosed
         THEN /\ panicked' = "send on closed channel"
              /\ UNCHANGED <<requests, tpc>>
         ELSE /\ Len(requests) < RequestsCap
              /\ requests' = Append(requests, 0)
              /\ tpc' = "g_recv"
              /\ UNCHANGED panicked
    /\ UNCHANGED <<cfgVars, loopVars, resVars, coordVars, workerVars, spawnIdx,
                   wg, requestsClosed, closeCount, closerPc, shutVars, ownVars, notTrain>>

\* PPO, at or above the threshold: closed = true; close(requests).
CoordClose ==
    /\ Running
    /\ tpc = "g_close"
    /\ closed' = TRUE
    /\ IF requestsClosed
         THEN /\ panicked' = "close of closed channel"
              /\ UNCHANGED <<requestsClosed, closeCount, tpc>>
         ELSE /\ requestsClosed' = TRUE
              /\ closeCount' = closeCount + 1
              /\ tpc' = "g_recv"
              /\ UNCHANGED panicked
    /\ UNCHANGED <<cfgVars, loopVars, resVars, workerVars, spawnIdx, wg, res,
                   numSteps, requests, closerPc, shutVars, ownVars, notTrain>>

\* Mutant of RangeEnded: the loop ends as soon as no token is left to serve.
RangeEndedNoTokens == requestsClosed /\ requests = <<>> /\ resChan = <<>>

\* range resChan ends: the channel is closed and nothing is left in it.
RangeEnded == resChanClosed /\ resChan = <<>>

\* The gather call returns res; the batch is packed and its stats logged.
GatherReturn ==
    /\ Running
    /\ tpc = "g_recv"
    /\ RangeEnded
    /\ rollouts' = res
    /\ epochIdx' = 0
    /\ tpc' = "run"
    /\ UNCHANGED <<cfgVars, reqVars, resVars, coordVars, workerVars, batchIdx,
                   params, trainLock, spawnIdx, wg, closerPc, panicked,
                   shutVars, ownVars, notTrain>>

\* trpo.Run(r), or one ppo.Run(r, adv) of the epoch loop: the gradient is
\* computed from the batch and the current parameters.
TrainRun ==
    /\ Running
    /\ tpc = "run"
    /\ algo = "ppo" => epochIdx < Epochs
    /\ tpc' = "add"
    /\ UNCHANGED <<cfgVars, loopVars, reqVars, resVars, coordVars, workerVars,
                   spawnIdx, wg, closerPc, panicked, shutVars, ownVars, notTrain>>

\* g.AddToVars(): the shared parameters are mutated in place.
TrainAddToVars ==
    /\ Running
    /\ tpc = "add"
    /\ params' = params + 1
    /\ IF algo = "ppo"
         THEN epochIdx' = epochIdx + 1 /\ tpc' = "run"
         ELSE UNCHANGED epochIdx /\ tpc' = "lock"
    /\ UNCHANGED <<cfgVars, reqVars, resVars, coordVars, workerVars, batchIdx,
                   trainLock, rollouts, spawnIdx, wg, closerPc, panicked,
                   shutVars, ownVars, notTrain>>

\* PPO's epoch loop is over.
TrainEpochsDone ==
    /\ Running
    /\ tpc = "run"
    /\ algo = "ppo"
    /\ epochIdx >= Epochs
    /\ tpc' = "lock"
    /\ UNCHANGED <<cfgVars, loopVars, reqVars, resVars, coordVars, workerVars,
                   spawnIdx, wg, closerPc, panicked, shutVars, ownVars, notTrain>>

\* trainLock.Lock()
TrainLock ==
    /\ Running
    /\ tpc = "lock"
    /\ trainLock = "free"
    /\ trainLock' = "train"
    /\ tpc' = "save"
    /\ UNCHANGED <<cfgVars, reqVars, resVars, coordVars, workerVars, batchIdx,
                   epochIdx, params, rollouts, spawnIdx, wg, closerPc,
                   panicked, shutVars, ownVars, notTrain>>

\* serializer.SaveAny(flags.PolicyFile, policy) succeeds.
TrainSavePolicy ==
    /\ Running
    /\ tpc = "save"
    /\ filePolicy' = params
    /\ savedAfter' = (savedAfter \/ signal)
    /\ tpc' = IF algo = "ppo" THEN "save_critic" ELSE "unlock"
    /\ UNCHANGED <<cfgVars, loopVars, reqVars, resVars, coordVars, workerVars,
                   spawnIdx, wg, closerPc, panicked, signal, mainPc, died,
                   fileCritic, tookAfter, saverVars, ownVars, notTrain>>

\* PPO: serializer.SaveAny(flags.CriticFile, critic) succeeds.
TrainSaveCritic ==
    /\ Running
    /\ tpc = "save_critic"
    /\ fileCritic' = params
    /\ tpc' = "unlock"
    /\ UNCHANGED <<cfgVars, loopVars, reqVars, resVars, coordVars, workerVars,
                   spawnIdx, wg, closerPc, panicked, signal, mainPc, died,
                   filePolicy, savedAfter, tookAfter, saverVars, ownVars, notTrain>>

\* trainLock.Unlock(); batchIdx++ and back to the top of the loop.
TrainUnlock ==
    /\ Running
    /\ tpc = "unlock"
    /\ trainLock' = "free"
    /\ batchIdx' = batchIdx + 1
    /\ tpc' = "loop"
    /\ UNCHANGED <<cfgVars, reqVars, resVars, coordVars, workerVars, epochIdx,
                   params, rollouts, spawnIdx, wg, closerPc, panicked,
                   shutVars, ownVars, notTrain>>

Trainer ==
    \/ GatherMake \/ GatherSpawn \/ GatherCloser
    \/ CoordRecv \/ (\E w \in Workers : CoordRecvFrom(w))
    \/ CoordSend \/ CoordClose \/ GatherReturn
    \/ TrainRun \/ TrainAddToVars \/ TrainEpochsDone
    \/ TrainLock \/ TrainSavePolicy \/ TrainSaveCritic \/ TrainUnlock

Worker(w) ==
    \/ WorkerTake(w) \/ WorkerExit(w)
    \/ WorkerRollout(w) \/ WorkerSend(w)

NextTrain ==
    \/ Trainer
    \/ \E w \in Workers : Worker(w)
    \/ CloserClose

SpecTrain == InitTrain /\ [][NextTrain]_vars

\* The Go scheduler does not leave every runnable goroutine waiting: while
\* a step of the training goroutine, of a worker or of the closer is
\* enabled, one of them is taken. Fairness towards each goroutine implies it.
FairTrain == SpecTrain /\ WF_vars(NextTrain)

(***************************************************************************)
(* Shutdown and failures of the TRPO / PPO process.                        *)
(***************************************************************************)

\* The variables of the gather call and the training loop that the main
\* goroutine and the signal leave alone.
poolVars == <<cfgVars, reqVars, resVars, coordVars, workerVars, tpc, batchIdx,
              epochIdx, params, rollouts, spawnIdx, wg, closerPc, panicked>>

\* The shutdown signal is raised: the channel of rip.NewRIP() is closed.
Signal ==
    /\ Running
    /\ ~signal
    /\ signal' = TRUE
    /\ UNCHANGED <<poolVars, trainLock, mainPc, died, filePolicy, fileCritic,
                   savedAfter, tookAfter, saverVars, ownVars, notTrain>>

\* Mutant of MainLock: main goes on without waiting for the lock.
MainLockBarge ==
    /\ Running
    /\ mainPc = "wait"
    /\ signal
    /\ trainLock' = "main"
    /\ mainPc' = "locked"
    /\ UNCHANGED <<poolVars, signal, died, filePolicy, fileCritic, savedAfter,
                   tookAfter, saverVars, ownVars, notTrain>>

\* The main goroutine has received from the channel: trainLock.Lock().
MainLock ==
    /\ Running
    /\ mainPc = "wait"
    /\ signal
    /\ trainLock = "free"
    /\ trainLock' = "main"
    /\ mainPc' = "locked"
    /\ UNCHANGED <<poolVars, signal, died, filePolicy, fileCritic, savedAfter,
                   tookAfter, saverVars, ownVars, notTrain>>

\* TRPO / PPO returns to main, which returns: the process exits and every
\* other goroutine ends where it is.
MainReturn ==
    /\ Running
    /\ mainPc = "locked"
    /\ mainPc' = "exited"
    /\ UNCHANGED <<poolVars, trainLock, signal, died, filePolicy, fileCritic,
                   savedAfter, tookAfter, saverVars, ownVars, notTrain>>

\* roller.Rollout returns an error.
WorkerRolloutErr(w) ==
    /\ Running
    /\ wpc[w] = "rollout"
    /\ wpc' = [wpc EXCEPT ![w] = "err"]
    /\ UNCHANGED <<cfgVars, loopVars, reqVars, resVars, coordVars, tpc,
                   spawnIdx, wg, witem, wpv, rolled, closerPc, panicked,
                   shutVars, ownVars, notTrain>>

\* Mutant of WorkerDie: the token goes back to requests and the worker
\* carries on with its loop.
WorkerRetry(w) ==
    /\ Running
    /\ wpc[w] = "err"
    /\ requests' = Append(requests, witem[w].tok)
    /\ wpc' = [wpc EXCEPT ![w] = "range"]
    /\ UNCHANGED <<cfgVars, loopVars, resVars, coordVars, tpc, spawnIdx, wg,
                   requestsClosed, closeCount, witem, wpv, rolled, closerPc,
                   panicked, shutVars, ownVars, notTrain>>

\* if err != nil: essentials.Die("rollout error:", err) ends the process.
WorkerDie(w) ==
    /\ Running
    /\ wpc[w] = "err"
    /\ died' = "rollout error"
    /\ UNCHANGED <<poolVars, trainLock, signal, mainPc, filePolicy, fileCritic,
                   savedAfter, tookAfter, saverVars, ownVars, notTrain>>

\* serializer.SaveAny returns an error: essentials.Die("save policy:", err)
\* or essentials.Die("save critic:", err) ends the process, nothing written.
TrainSaveFail ==
    /\ Running
    /\ tpc \in {"save", "save_critic"}
    /\ died' = IF tpc = "save" THEN "save policy" ELSE "save critic"
    /\ UNCHANGED <<poolVars, trainLock, signal, mainPc, filePolicy, fileCritic,
                   savedAfter, tookAfter, saverVars, ownVars, notTrain>>

Main == MainLock \/ MainReturn

(***************************************************************************)
(* A3C: the workers of a3c.Run, the saver goroutine and the main           *)
(* goroutine.  params is what the ParamServer holds.                       *)
(***************************************************************************)

\* A file whose halves were serialized from different parameters.
Torn == -2

\* paramServer.LocalCopy() makes an agent of its own with the parameters the
\* server holds.
LocalCopyAlias == [shared |-> TRUE, val |-> params]

LocalCopy == [shared |-> FALSE, val |-> params]

\* The parameters an agent has when it is read.
AgentParams(agent) == IF agent.shared THEN params ELSE agent.val

\* The file SaveAny writes from what it serialized first and last.
FileOf(first, last) == IF first = last THEN last ELSE Torn

InitA3C ==
    /\ IdleRest
    /\ algo = "a3c"
    /\ NumParallel = 0
    /\ BatchSize = 0
    /\ BatchSteps = 0
    /\ Epochs = 0
    /\ tpc = "none"
    /\ batchIdx = 0
    /\ spawnIdx = 0
    /\ epochIdx = 0
    /\ params = 0
    /\ trainLock = "free"
    /\ rollouts = <<>>
    /\ requests = <<>>
    /\ requestsClosed = FALSE
    /\ closeCount = 0
    /\ resChan = <<>>
    /\ resChanClosed = FALSE
    /\ wg = 0
    /\ res = <<>>
    /\ numSteps = 0
    /\ closed = FALSE
    /\ wpc = [w \in Workers |-> "none"]
    /\ witem = [w \in Workers |-> NoItem]
    /\ wpv = [w \in Workers |-> 0]
    /\ rolled = 0
    /\ closerPc = "none"
    /\ panicked = ""
    /\ signal = FALSE
    /\ mainPc = "run"
    /\ died = ""
    /\ filePolicy = -1
    /\ fileCritic = -1
    /\ savedAfter = FALSE
    /\ tookAfter = FALSE
    /\ spc = "test"
    /\ local = NoAgent
    /\ saveBuf = -1
    /\ saveFinal = FALSE
    /\ callAfter = FALSE
    /\ wenv = [w \in Workers |-> NoEnv]
    /\ envCount = 0
    /\ wclosed = [w \in Workers |-> 0]
    /\ IdleKey
    /\ IdleJoin
    /\ IdleEnv
    /\ IdleObs
    /\ IdleMouse

\* What an A3C step leaves alone besides the variables it names.
notA3C == <<cfgVars, reqVars, resVars, coordVars, workerVars, tpc, batchIdx,
            epochIdx, trainLock, rollouts, spawnIdx, wg, closerPc, panicked,
            tookAfter, ownVars, notTrain>>

\* A worker of a3c.Run submits an update to the ParamServer.
A3CUpdate ==
    /\ Running
    /\ mainPc = "run"
    /\ params < MaxUpdates
    /\ params' = params + 1
    /\ UNCHANGED <<signal, mainPc, died, filePolicy, fileCritic, savedAfter,
                   saverVars, notA3C>>

\* a3c.Run returns once its done channel is closed.
A3CRunReturn ==
    /\ Running
    /\ mainPc = "run"
    /\ signal
    /\ mainPc' = "waitSave"
    /\ UNCHANGED <<params, signal, died, filePolicy, fileCritic, savedAfter,
                   saverVars, notA3C>>

\* <-saveDone, then A3C returns.
A3CReturn ==
    /\ Running
    /\ mainPc = "waitSave"
    /\ spc = "done"
    /\ mainPc' = "exited"
    /\ UNCHANGED <<params, signal, died, filePolicy, fileCritic, savedAfter,
                   saverVars, notA3C>>

\* for !trainEnd.Done(): when the test fails the goroutine returns and the
\* deferred close(saveDone) runs.
SaverTest ==
    /\ Running
    /\ spc = "test"
    /\ spc' = IF signal THEN "done" ELSE "copy"
    /\ saveFinal' = FALSE
    /\ UNCHANGED <<params, signal, mainPc, died, filePolicy, fileCritic,
                   savedAfter, local, saveBuf, callAfter, notA3C>>

\* saveA3C: paramServer.LocalCopy().
SaverCopy ==
    /\ Running
    /\ spc = "copy"
    /\ local' = LocalCopy
    /\ callAfter' = signal
    /\ spc' = "pol1"
    /\ UNCHANGED <<params, signal, mainPc, died, filePolicy, fileCritic,
                   savedAfter, saveBuf, saveFinal, notA3C>>

\* SaveAny serializes the first part of the policy or of the critic.
SaverSerialize ==
    /\ Running
    /\ spc \in {"pol1", "crit1"}
    /\ saveBuf' = AgentParams(local)
    /\ spc' = IF spc = "pol1" THEN "pol2" ELSE "crit2"
    /\ UNCHANGED <<params, signal, mainPc, died, filePolicy, fileCritic,
                   savedAfter, local, saveFinal, callAfter, notA3C>>

\* SaveAny serializes the rest of the policy and writes flags.PolicyFile.
SaverWritePolicy ==
    /\ Running
    /\ spc = "pol2"
    /\ filePolicy' = FileOf(saveBuf, AgentParams(local))
    /\ saveBuf' = -1
    /\ spc' = "crit1"
    /\ UNCHANGED <<params, signal, mainPc, died, fileCritic, savedAfter, local,
                   saveFinal, callAfter, notA3C>>

\* SaveAny serializes the rest of the critic and writes flags.CriticFile;
\* saveA3C returns, to the select or, in the signal case, to the loop test.
SaverWriteCritic ==
    /\ Running
    /\ spc = "crit2"
    /\ fileCritic' = FileOf(saveBuf, AgentParams(local))
    /\ saveBuf' = -1
    /\ savedAfter' = (savedAfter \/ callAfter)
    /\ spc' = IF saveFinal THEN "test" ELSE "select"
    /\ UNCHANGED <<params, signal, mainPc, died, filePolicy, local, saveFinal,
                   callAfter, notA3C>>

\* saveA3C returns an error: essentials.Die(err).
SaverFail ==
    /\ Running
    /\ spc \in {"copy", "pol1", "pol2", "crit1", "crit2"}
    /\ died' = "save"
    /\ UNCHANGED <<params, signal, mainPc, filePolicy, fileCritic, savedAfter,
                   saverVars, notA3C>>

\* select: the timer of time.After(flags.SaveTime) has fired.
SaverSelectTimer ==
    /\ Running
    /\ spc = "select"
    /\ spc' = "test"
    /\ UNCHANGED <<params, signal, mainPc, died, filePolicy, fileCritic,
                   savedAfter, local, saveBuf, saveFinal, callAfter, notA3C>>

\* select: trainEnd.Chan() is closed; saveA3C is called once more.
SaverSelectSignal ==
    /\ Running
    /\ spc = "select"
    /\ signal
    /\ spc' = "copy"
    /\ saveFinal' = TRUE
    /\ UNCHANGED <<params, signal, mainPc, died, filePolicy, fileCritic,
                   savedAfter, local, saveBuf, callAfter, notA3C>>

Saver ==
    \/ SaverTest
    \/ SaverCopy
    \/ SaverSerialize
    \/ SaverWritePolicy
    \/ SaverWriteCritic
    \/ SaverFail
    \/ SaverSelectTimer
    \/ SaverSelectSignal

NextA3C == A3CUpdate \/ A3CRunReturn \/ A3CReturn \/ Saver

\* The processes whose shutdown is followed: TRPO and PPO with the smallest
\* and the largest batch, and A3C.
InitShut ==
    \/ /\ InitTrain
       /\ BatchSize \in {0, MaxBatchSize}
       /\ BatchSteps \in {0, MaxBatchSteps}
    \/ InitA3C

NextShut ==
    \/ NextTrain
    \/ Signal
    \/ Main
    \/ \E w \in Workers : WorkerRolloutErr(w) \/ WorkerDie(w)
    \/ TrainSaveFail
    \/ NextA3C

SpecShut == InitShut /\ [][NextShut]_vars

(***************************************************************************)
(* KeyActor.                                                               *)
(***************************************************************************)

\* Vector components are tenths: 5 is 0.5, the threshold of Events.
Thresh == 5
VecVals == {1, 5, 9}
KeyNames == {"Left", "Right", "Space"}

\* Key lists of the given length; a key is listed once.
KeyLists(n) ==
    {ks \in [1..n -> KeyNames] : \A i, j \in 1..n : i # j => ks[i] # ks[j]}

\* chrome.KeyEvents[keyName] with its Type set.
KeyEvent(keyName, type) == [code |-> keyName, type |-> type]

\* Mutant of KeyIterHold: the new state of the key is not recorded.
KeyIterNoRecord(st, keyName, press) ==
    IF ~NoHold /\ press # (keyName \in st.pressed)
      THEN [pressed |-> st.pressed,
            events |-> Append(st.events,
                         KeyEvent(keyName, IF press THEN "keyDown" ELSE "keyUp"))]
    ELSE st

\* Mutant of KeyIterHold: a change of state is always sent as a KeyDown.
KeyIterAlwaysDown(st, keyName, press) ==
    IF ~NoHold /\ press # (keyName \in st.pressed)
      THEN [pressed |-> IF press THEN st.pressed \cup {keyName}
                                 ELSE st.pressed \ {keyName},
            events |-> Append(st.events, KeyEvent(keyName, "keyDown"))]
    ELSE st

\* The second branch of the loop body of Events: without NoHold, an event
\* on a change of the recorded state of the key, which is then recorded.
KeyIterHold(st, keyName, press) ==
    IF ~NoHold /\ press # (keyName \in st.pressed)
      THEN [pressed |-> IF press THEN st.pressed \cup {keyName}
                                 ELSE st.pressed \ {keyName},
            events |-> Append(st.events,
                         KeyEvent(keyName, IF press THEN "keyDown" ELSE "keyUp"))]
    ELSE st

\* Mutant of KeyIter: a tap appends the down event alone.
KeyIterDownOnly(st, keyName, press) ==
    IF NoHold /\ press
      THEN [pressed |-> st.pressed,
            events |-> Append(st.events, KeyEvent(keyName, "keyDown"))]
    ELSE KeyIterHold(st, keyName, press)

\* The loop body of Events: with NoHold a pressed key gets a down event and
\* an up event; otherwise the second branch decides.
KeyIter(st, keyName, press) ==
    IF NoHold /\ press
      THEN [pressed |-> st.pressed,
            events |-> st.events \o <<KeyEvent(keyName, "keyDown"),
                                      KeyEvent(keyName, "keyUp")>>]
    ELSE KeyIterHold(st, keyName, press)

\* The loop of Events over Keys, from index i on.
RECURSIVE KeyLoop(_, _, _)
KeyLoop(st, i, vec) ==
    IF i > Len(Keys) THEN st
    ELSE KeyLoop(KeyIter(st, Keys[i], vec[i] > Thresh), i + 1, vec)

\* KeyActor.Events(vec): the events and the new pressed map.
KeyActorEvents(vec) == KeyLoop([pressed |-> pressed, events |-> <<>>], 1, vec)

InitKey ==
    /\ IdleRest
    /\ IdleMouse
    /\ \E n \in 1..MaxKeys : Keys \in KeyLists(n)
    /\ NoHold \in BOOLEAN
    /\ keyReset = FALSE
    /\ pressed = {}
    /\ keyVec = <<>>
    /\ keyPrev = <<>>
    /\ keyEvents = <<>>
    /\ IdleTrain
    /\ IdleJoin
    /\ IdleEnv
    /\ IdleObs

\* Mutant of KeyActorReset: the map of the last episode is kept.
KeyActorResetKeep == pressed

\* The keys the map holds true after KeyActor.Reset(): a new, empty map.
KeyActorReset == {}

\* KeyActor.Reset()
KeyReset ==
    /\ keyReset' = TRUE
    /\ pressed' = KeyActorReset
    /\ keyVec' = <<>>
    /\ keyPrev' = <<>>
    /\ keyEvents' = <<>>
    /\ UNCHANGED <<Keys, NoHold, notKey>>

\* KeyActor.Events(vec), called after Reset.
KeyEvents ==
    /\ keyReset
    /\ \E vec \in [1..Len(Keys) -> VecVals] :
         /\ pressed' = KeyActorEvents(vec).pressed
         /\ keyEvents' = KeyActorEvents(vec).events
         /\ keyVec' = vec
         /\ keyPrev' = keyVec
    /\ UNCHANGED <<Keys, NoHold, keyReset, notKey>>

NextKey == KeyReset \/ KeyEvents

SpecKey == InitKey /\ [][NextKey]_vars

(***************************************************************************)
(* Claims about the KeyActor.                                              *)
(***************************************************************************)

\* The events of the last Events call that are about key k.
EventsOf(k) == SelectSeq(keyEvents, LAMBDA e : e.code = k)

\* C5: NoHold = false. After every Events call that follows a Reset, a key
\* whose thresholded bit equals its bit in the previous call (released on
\* the first call) got no event, and a key whose bit differs got exactly
\* one: KeyDown when it became pressed, KeyUp when it became released.
C5_Debounce ==
    (~NoHold /\ keyVec # <<>>) =>
        \A i \in 1..Len(Keys) :
            LET bit == keyVec[i] > Thresh
                prev == IF keyPrev = <<>> THEN FALSE ELSE keyPrev[i] > Thresh
            IN  IF bit = prev
                  THEN EventsOf(Keys[i]) = <<>>
                  ELSE EventsOf(Keys[i]) =
                         <<KeyEvent(Keys[i], IF bit THEN "keyDown" ELSE "keyUp")>>

\* Witness of C5: the same press vector twice in a row, a key held down.
C5_Witness ==
    /\ ~NoHold
    /\ Len(Keys) = 2
    /\ keyVec = <<9, 1>>
    /\ keyPrev = <<9, 1>>
    /\ keyEvents = <<>>
    /\ pressed = {Keys[1]}

\* The indices of the keys the last vector presses, in Keys order.
PressedIdx == SelectSeq([i \in 1..Len(Keys) |-> i], LAMBDA i : keyVec[i] > Thresh)

\* C6: NoHold = true. Every Events call returns, for each key in Keys order
\* whose component is above 0.5, a KeyDown immediately followed by a KeyUp,
\* and nothing else, whatever the calls before it.
C6_Tap ==
    (NoHold /\ keyVec # <<>>) =>
        /\ Len(keyEvents) = 2 * Len(PressedIdx)
        /\ \A j \in 1..Len(PressedIdx) :
             /\ keyEvents[2 * j - 1] = KeyEvent(Keys[PressedIdx[j]], "keyDown")
             /\ keyEvents[2 * j] = KeyEvent(Keys[PressedIdx[j]], "keyUp")

\* Witness of C6: keys [Left, Right], vector [0.9, 0.1] after a call that
\* pressed Right: Left-down, Left-up only.
C6_Witness ==
    /\ NoHold
    /\ Keys = <<"Left", "Right">>
    /\ keyVec = <<9, 1>>
    /\ keyPrev = <<1, 9>>
    /\ keyEvents = <<KeyEvent("Left", "keyDown"), KeyEvent("Left", "keyUp")>>

(***************************************************************************)
(* MouseActor, Discrete.                                                   *)
(***************************************************************************)

\* options(): int(cos(2*pi*i/5) * radius), int(sin(2*pi*i/5) * radius) for
\* the radii 10, 40, 80 and i = 0..4, after the centre. int() truncates.
Options ==
    << <<0, 0>>,
       <<10, 0>>, <<3, 9>>, <<-8, 5>>, <<-8, -5>>, <<3, -9>>,
       <<40, 0>>, <<12, 38>>, <<-32, 23>>, <<-32, -23>>, <<12, -38>>,
       <<80, 0>>, <<24, 76>>, <<-64, 47>>, <<-64, -47>>, <<24, -76>> >>

\* The indices of the options, from 0 as in the code.
OptIdx == 0..(Len(Options) - 1)

\* math.Inf(1), which no distance reaches.
DistInf == -1

\* The square of dist in closestOption. The squares are integers that
\* float64 holds exactly and math.Sqrt keeps their order, so dist < closestDist
\* is decided on the squares.
Dist2(deltaX, deltaY, opt) ==
    (deltaX - opt[1]) * (deltaX - opt[1]) + (deltaY - opt[2]) * (deltaY - opt[2])

\* Mutant of Closer: an option at the same distance replaces the earlier one.
CloserOrSame(dist, closestDist) == closestDist = DistInf \/ dist <= closestDist

\* dist < closestDist
Closer(dist, closestDist) == closestDist = DistInf \/ dist < closestDist

\* The loop of closestOption, from option i on.
RECURSIVE ClosestLoop(_, _, _, _, _)
ClosestLoop(i, closestOpt, closestDist, deltaX, deltaY) ==
    IF i >= Len(Options) THEN closestOpt
    ELSE LET dist == Dist2(deltaX, deltaY, Options[i + 1])
         IN  IF Closer(dist, closestDist)
               THEN ClosestLoop(i + 1, i, dist, deltaX, deltaY)
               ELSE ClosestLoop(i + 1, closestOpt, closestDist, deltaX, deltaY)

\* MouseActor.closestOption(deltaX, deltaY)
ClosestOption(deltaX, deltaY) == ClosestLoop(0, 0, DistInf, deltaX, deltaY)

Deltas == (-MaxDelta)..MaxDelta

InitClosest ==
    /\ IdleRest
    /\ closeIn \in Deltas \X Deltas
    /\ closeOut = -1
    /\ Width = 0
    /\ Height = 0
    /\ mouseNoHold = FALSE
    /\ mouseTurn = "none"
    /\ mousePressed = FALSE
    /\ lastX = 0
    /\ lastY = 0
    /\ bPressed = FALSE
    /\ bLastX = 0
    /\ bLastY = 0
    /\ mouseVec = NoVec
    /\ mouseFrom = <<0, 0>>
    /\ mouseEvents = <<>>
    /\ mouseOut = NoVec
    /\ IdleTrain
    /\ IdleKey
    /\ IdleJoin
    /\ IdleEnv
    /\ IdleObs

\* A call of closestOption.
ClosestCall ==
    /\ closeOut = -1
    /\ closeOut' = ClosestOption(closeIn[1], closeIn[2])
    /\ UNCHANGED <<closeIn, Width, Height, mouseNoHold, mouseTurn, mousePressed, lastX,
                   lastY, bPressed, bLastX, bLastY, mouseVec, mouseFrom,
                   mouseEvents, mouseOut, notMouse>>

NextClosest == ClosestCall

SpecClosest == InitClosest /\ [][NextClosest]_vars

\* C11: closestOption returns the smallest index whose offset is at the
\* least Euclidean distance from the delta: no option is nearer, and every
\* option before it is farther.
C11_ClosestFirst ==
    closeOut # -1 =>
        /\ closeOut \in OptIdx
        /\ \A j \in OptIdx :
             /\ Dist2(closeIn[1], closeIn[2], Options[closeOut + 1])
                  <= Dist2(closeIn[1], closeIn[2], Options[j + 1])
             /\ j < closeOut =>
                  Dist2(closeIn[1], closeIn[2], Options[closeOut + 1])
                    < Dist2(closeIn[1], closeIn[2], Options[j + 1])

\* Witness of C11: a delta as far from option 3 as from option 4, and
\* farther from every other one; the earlier of the two is returned.
C11_Witness ==
    /\ closeIn = <<-8, 0>>
    /\ closeOut = 3
    /\ Dist2(-8, 0, Options[4]) = Dist2(-8, 0, Options[5])

(***************************************************************************)
(* MouseActor.Events and MouseActor.Vectorize, two actors in lock-step.    *)
(***************************************************************************)

Min(a, b) == IF a < b THEN a ELSE b
Max(a, b) == IF a > b THEN a ELSE b

\* A chrome.MouseEvent.
MouseEvent(type, x, y, button, clickCount) ==
    [type |-> type, x |-> x, y |-> y, button |-> button, clickCount |-> clickCount]

\* The one-hot action vectors: the press component in tenths and the index
\* of the component of vec[1:] that is not zero.
MouseVecs == [press : {1, 9}, opt : OptIdx]

\* Mutant of Clamp: no lower limit.
ClampTop(v, n) == Min(n - 1, v)

\* essentials.MaxInt(0, essentials.MinInt(n-1, v)), the end of mouseCoords.
Clamp(v, n) == Max(0, Min(n - 1, v))

\* mouseCoords(vec[1:]) of the discrete actor whose cursor is at (lx, ly).
MouseCoords(lx, ly, opt) ==
    LET x == IF opt = -1 THEN 0 ELSE lx + Options[opt + 1][1]
        y == IF opt = -1 THEN 0 ELSE ly + Options[opt + 1][2]
    IN  <<Clamp(x, Width), Clamp(y, Height)>>

\* MouseActor.Events after its first two lines: press is vec[0] > 0.5 and xy
\* what mouseCoords returned. The new state of the actor and the events.
EventsAt(p, lx, ly, press, xy) ==
    LET evt == MouseEvent("mousePressed", lx, ly, "left", 1)
        clicks == IF mouseNoHold /\ press
                    THEN <<evt, [evt EXCEPT !.type = "mouseReleased"]>>
                  ELSE IF ~mouseNoHold /\ press # p
                    THEN <<[evt EXCEPT !.type = IF press THEN "mousePressed"
                                                ELSE "mouseReleased"]>>
                  ELSE <<>>
        p2 == IF ~mouseNoHold /\ press # p THEN press ELSE p
        moved == xy[1] # lx \/ xy[2] # ly
    IN  [pressed |-> p2,
         lastX |-> IF moved THEN xy[1] ELSE lx,
         lastY |-> IF moved THEN xy[2] ELSE ly,
         events |-> IF moved
                      THEN Append(clicks, MouseEvent("mouseMoved", xy[1], xy[2],
                                                     IF p2 THEN "left" ELSE "none", 0))
                      ELSE clicks]

\* MouseActor.Events(vec) of the discrete actor in state <<p, lx, ly>>.
MouseActorEvents(p, lx, ly, vec) ==
    EventsAt(p, lx, ly, vec.press > Thresh, MouseCoords(lx, ly, vec.opt))

\* The loop of MouseActor.Vectorize from event i on: <<newX, newY, pressed>>.
RECURSIVE VectorizeLoop(_, _, _)
VectorizeLoop(events, i, st) ==
    IF i > Len(events) THEN st
    ELSE LET e == events[i]
         IN  IF e.type = "mousePressed"
               THEN IF mouseNoHold
                      THEN <<e.x, e.y, TRUE>>
                      ELSE VectorizeLoop(events, i + 1, <<e.x, e.y, TRUE>>)
             ELSE IF ~mouseNoHold /\ e.type = "mouseReleased"
               THEN VectorizeLoop(events, i + 1, <<e.x, e.y, FALSE>>)
             ELSE VectorizeLoop(events, i + 1, <<e.x, e.y, st[3]>>)

\* Mutant of MouseActorVectorize: the cursor of the actor is not moved.
MouseActorVectorizeStay(p, lx, ly, events) ==
    LET st == VectorizeLoop(events, 1, <<lx, ly, p>>)
    IN  [pressed |-> st[3], lastX |-> lx, lastY |-> ly,
         vec |-> [press |-> IF st[3] THEN 10 ELSE 0,
                  opt |-> ClosestOption(st[1] - lx, st[2] - ly)]]

\* MouseActor.Vectorize(events) of the discrete actor in state <<p, lx, ly>>:
\* its new state and the vector (vec[0] in tenths).
MouseActorVectorize(p, lx, ly, events) ==
    LET st == VectorizeLoop(events, 1, <<lx, ly, p>>)
    IN  [pressed |-> st[3], lastX |-> st[1], lastY |-> st[2],
         vec |-> [press |-> IF st[3] THEN 10 ELSE 0,
                  opt |-> ClosestOption(st[1] - lx, st[2] - ly)]]

InitMouse ==
    /\ IdleRest
    /\ Width \in {1, MaxWidth}
    /\ Height \in {1, MaxHeight}
    /\ mouseNoHold \in BOOLEAN
    /\ mouseTurn = "new"
    /\ mousePressed = FALSE
    /\ lastX = 0
    /\ lastY = 0
    /\ bPressed = FALSE
    /\ bLastX = 0
    /\ bLastY = 0
    /\ mouseVec = NoVec
    /\ mouseFrom = <<0, 0>>
    /\ mouseEvents = <<>>
    /\ mouseOut = NoVec
    /\ closeIn = <<0, 0>>
    /\ closeOut = -1
    /\ IdleTrain
    /\ IdleKey
    /\ IdleJoin
    /\ IdleEnv
    /\ IdleObs

\* A.Reset() and B.Reset()
MouseReset ==
    /\ mouseTurn \in {"new", "events"}
    /\ mouseTurn' = "events"
    /\ mousePressed' = FALSE
    /\ lastX' = Width \div 2
    /\ lastY' = Height \div 2
    /\ bPressed' = FALSE
    /\ bLastX' = Width \div 2
    /\ bLastY' = Height \div 2
    /\ mouseVec' = NoVec
    /\ mouseFrom' = <<Width \div 2, Height \div 2>>
    /\ mouseEvents' = <<>>
    /\ mouseOut' = NoVec
    /\ UNCHANGED <<Width, Height, mouseNoHold, closeIn, closeOut, notMouse>>

\* A.Events(vec)
MouseEvents ==
    /\ mouseTurn = "events"
    /\ \E vec \in MouseVecs :
         LET r == MouseActorEvents(mousePressed, lastX, lastY, vec)
         IN  /\ mouseVec' = vec
             /\ mousePressed' = r.pressed
             /\ lastX' = r.lastX
             /\ lastY' = r.lastY
             /\ mouseEvents' = r.events
    /\ mouseFrom' = <<lastX, lastY>>
    /\ mouseTurn' = "vectorize"
    /\ UNCHANGED <<Width, Height, mouseNoHold, bPressed, bLastX, bLastY,
                   mouseOut, closeIn, closeOut, notMouse>>

\* B.Vectorize(events), events being what A.Events returned.
MouseVectorize ==
    /\ mouseTurn = "vectorize"
    /\ LET r == MouseActorVectorize(bPressed, bLastX, bLastY, mouseEvents)
       IN  /\ bPressed' = r.pressed
           /\ bLastX' = r.lastX
           /\ bLastY' = r.lastY
           /\ mouseOut' = r.vec
    /\ mouseTurn' = "events"
    /\ UNCHANGED <<Width, Height, mouseNoHold, mousePressed, lastX, lastY,
                   mouseVec, mouseFrom, mouseEvents, closeIn, closeOut, notMouse>>

NextMouse == MouseReset \/ MouseEvents \/ MouseVectorize

SpecMouse == InitMouse /\ [][NextMouse]_vars

\* B has vectorized the events of A's last Events call.
MouseTripDone == mouseTurn = "events" /\ mouseOut # NoVec

\* The delta A performed in its last Events call.
MouseDelta == <<lastX - mouseFrom[1], lastY - mouseFrom[2]>>

\* Option i is the first of the options nearest to delta d.
NearestFirst(i, d) ==
    \A j \in OptIdx :
        /\ Dist2(d[1], d[2], Options[i + 1]) <= Dist2(d[1], d[2], Options[j + 1])
        /\ j < i => Dist2(d[1], d[2], Options[i + 1]) < Dist2(d[1], d[2], Options[j + 1])

\* What the round trip promises of one step.
MouseTripOk ==
    /\ NearestFirst(mouseOut.opt, MouseDelta)
    /\ MouseDelta = Options[mouseVec.opt + 1] => mouseOut.opt = mouseVec.opt
    /\ (mouseOut.press > Thresh) = (mouseVec.press > Thresh)
    /\ bLastX = lastX
    /\ bLastY = lastY

\* C12: discrete MouseActor round trip. After every lock-step step
\* B.Vectorize(A.Events(v)) names the option nearest to the delta A performed
\* (v's own option when nothing was clamped) and v's press bit, and A and B
\* hold the same cursor; for NoHold = false and for NoHold = true.
C12_RoundTrip == MouseTripDone => MouseTripOk

\* C12, for NoHold = false only.
C12_RoundTripHold == (MouseTripDone /\ ~mouseNoHold) => MouseTripOk

\* Witness of C12 with NoHold = false: a pressed, unclamped move to an
\* option of the first ring, given back by B.
C12_HoldWitness ==
    /\ MouseTripDone
    /\ ~mouseNoHold
    /\ mouseVec.press > Thresh
    /\ mouseVec.opt = 2
    /\ MouseDelta = <<3, 9>>
    /\ mouseOut = [press |-> 10, opt |-> 2]

\* The failing run of C12: NoHold = true, a click with a move. B stops at
\* the MousePressed event, which carries the cursor before the move.
C12_TapDiverges ==
    /\ MouseTripDone
    /\ mouseNoHold
    /\ mouseVec.press > Thresh
    /\ MouseDelta # <<0, 0>>
    /\ mouseOut.opt = 0
    /\ <<bLastX, bLastY>> # <<lastX, lastY>>


(***************************************************************************)
(* ObsJoiner and Env.                                                      *)
(***************************************************************************)

PixVals == {0, 1}
Rewards == {0, 1}

\* EnvSpec.RewardScale: not set (zero), or a scale.
RewardScales == {0, 2}

\* The vectors Observer.ObsVec can make for this Env.
Frames == [1..FrameLen -> PixVals]

\* Mutant of JoinerReset: the history is one frame short.
JoinerResetShort(obs) == [i \in 1..(HistorySize - 1) |-> obs]

\* ObsJoiner.Reset(obs): HistorySize copies of obs.
JoinerReset(obs) == [i \in 1..HistorySize |-> obs]

\* The inner loop of joinFrames: element idx of the frames k.. is appended.
RECURSIVE JoinInner(_, _, _, _)
JoinInner(acc, allFrames, idx, k) ==
    IF k > Len(allFrames) THEN acc
    ELSE JoinInner(Append(acc, allFrames[k][idx]), allFrames, idx, k + 1)

\* The outer loop of joinFrames, over the indices idx.. of current.
RECURSIVE JoinOuter(_, _, _, _)
JoinOuter(acc, allFrames, current, idx) ==
    IF idx > Len(current) THEN acc
    ELSE JoinOuter(JoinInner(acc, allFrames, idx, 1), allFrames, current, idx + 1)

\* Mutant of joinFrames: the frames are concatenated one after the other.
RECURSIVE JoinConcat(_, _)
JoinConcat(h, current) ==
    IF h = <<>> THEN current ELSE Head(h) \o JoinConcat(Tail(h), current)

\* joinFrames(hist, current)
JoinFrames(h, current) == JoinOuter(<<>>, Append(h, current), current, 1)

\* Mutant of JoinerStep: the history is left as it was.
JoinerStepStale(h, obs) == [joined |-> JoinFrames(h, obs), hist |-> h]

\* ObsJoiner.Step(obs): the joined vector and the new history.
JoinerStep(h, obs) ==
    [joined |-> JoinFrames(h, obs),
     hist |-> IF Len(h) > 0 THEN Append(Tail(h), obs) ELSE h]

\* The effect of joiner.Reset(obs) on the joiner.
DoJoinerReset(obs) ==
    /\ joinReady' = TRUE
    /\ hist' = JoinerReset(obs)
    /\ resetObs' = obs
    /\ joined' = <<>>
    /\ joinHist' = <<>>
    /\ joinCur' = <<>>
    /\ UNCHANGED <<HistorySize, FrameLen>>

\* The effect of joiner.Step(obs) on the joiner, h being its history.
DoJoinerStep(h, obs) ==
    /\ joined' = JoinerStep(h, obs).joined
    /\ hist' = JoinerStep(h, obs).hist
    /\ joinHist' = h
    /\ joinCur' = obs
    /\ UNCHANGED <<HistorySize, FrameLen, joinReady>>

InitJoin ==
    /\ IdleRest
    /\ IdleMouse
    /\ HistorySize \in 0..MaxHistory
    /\ FrameLen \in 1..MaxFrameLen
    /\ joinReady = FALSE
    /\ hist = <<>>
    /\ joined = <<>>
    /\ joinHist = <<>>
    /\ joinCur = <<>>
    /\ resetObs = <<>>
    /\ IdleTrain
    /\ IdleKey
    /\ IdleEnv
    /\ IdleObs

\* ObsJoiner.Reset(obs)
JoinReset ==
    /\ \E obs \in Frames : DoJoinerReset(obs)
    /\ UNCHANGED notJoin

\* ObsJoiner.Step(obs), called after Reset.
JoinStep ==
    /\ joinReady
    /\ \E obs \in Frames : DoJoinerStep(hist, obs)
    /\ resetObs' = IF joinCur = <<>> THEN resetObs ELSE <<>>
    /\ UNCHANGED notJoin

NextJoin == JoinReset \/ JoinStep

SpecJoin == InitJoin /\ [][NextJoin]_vars

\* Mutant of StepDone: the cap is compared with > instead of >=.
StepDoneLate(raw, ts) == raw \/ ts > MaxSteps

\* The done flag of Env.Step, ts being the incremented timestep.
StepDone(raw, ts) == raw \/ ts >= MaxSteps

\* Mutant of AddCtx: the error is passed on as it is.
AddCtxNone(ctx, err) == err

\* essentials.AddCtxTo(ctx, &err): a non-nil error gets the context.
AddCtx(ctx, err) == IF err = <<>> THEN err ELSE <<ctx>> \o err

\* The action vectors the MouseActor of the Env is stepped with.
EnvMouseActions == {[press |-> 9, opt |-> 1], [press |-> 1, opt |-> 3]}

\* The action vectors the Env of the model is stepped with.
EnvActions == IF actorKind = "mouse" THEN EnvMouseActions ELSE {<<1>>, <<9>>}

\* The Env after NewEnv, with a KeyActor of one key or a discrete MouseActor.
InitEnv ==
    /\ IdleRest
    /\ actorKind \in {"key", "mouse"}
    /\ IF actorKind = "key"
         THEN /\ MaxSteps \in 0..MaxStepsCap
              /\ HistorySize \in 0..MaxHistory
              /\ Keys = <<"Left">>
              /\ NoHold \in BOOLEAN
              /\ IdleMouse
         ELSE /\ MaxSteps = MaxStepsCap
              /\ HistorySize = MaxHistory
              /\ IdleKey
              /\ Width = MaxWidth
              /\ Height = MaxHeight
              /\ mouseNoHold \in BOOLEAN
              /\ mouseTurn = "env"
              /\ mousePressed = FALSE
              /\ lastX = 0
              /\ lastY = 0
              /\ bPressed = FALSE
              /\ bLastX = 0
              /\ bLastY = 0
              /\ mouseVec = NoVec
              /\ mouseFrom = <<0, 0>>
              /\ mouseEvents = <<>>
              /\ mouseOut = NoVec
              /\ closeIn = <<0, 0>>
              /\ closeOut = -1
    /\ actorKind = "key" =>
         /\ keyReset = FALSE
         /\ pressed = {}
         /\ keyVec = <<>>
         /\ keyPrev = <<>>
         /\ keyEvents = <<>>
    /\ timestep = 0
    /\ envPhase = "new"
    /\ envRet = NoRet
    /\ stepsOk = 0
    /\ doneSeen = FALSE
    /\ rawDone = FALSE
    /\ RewardScale \in (IF actorKind = "key" /\ HistorySize = 0
                          THEN RewardScales ELSE {0})
    /\ rawReward = 0
    /\ rawSteps = 0
    /\ usedBefore = FALSE
    /\ FrameLen = 1
    /\ joinReady = FALSE
    /\ hist = <<>>
    /\ joined = <<>>
    /\ joinHist = <<>>
    /\ joinCur = <<>>
    /\ resetObs = <<>>
    /\ IdleTrain
    /\ IdleObs

\* The effect of Actor.Reset() in Env.Reset.
EnvActorReset ==
    IF actorKind = "key"
      THEN /\ keyReset' = TRUE
           /\ pressed' = KeyActorReset
           /\ keyVec' = <<>>
           /\ keyPrev' = <<>>
           /\ keyEvents' = <<>>
           /\ UNCHANGED <<Keys, NoHold, mouseVars>>
      ELSE /\ mousePressed' = FALSE
           /\ lastX' = Width \div 2
           /\ lastY' = Height \div 2
           /\ mouseVec' = NoVec
           /\ mouseFrom' = <<Width \div 2, Height \div 2>>
           /\ mouseEvents' = <<>>
           /\ UNCHANGED <<Width, Height, mouseNoHold, mouseTurn, bPressed, bLastX,
                          bLastY, mouseOut, closeIn, closeOut, keyVars>>

\* The effect of Actor.Events(action) in Env.Step.
EnvActorEvents(action) ==
    IF actorKind = "key"
      THEN /\ pressed' = KeyActorEvents(action).pressed
           /\ keyEvents' = KeyActorEvents(action).events
           /\ keyVec' = action
           /\ keyPrev' = keyVec
           /\ UNCHANGED <<Keys, NoHold, keyReset, mouseVars>>
      ELSE LET r == MouseActorEvents(mousePressed, lastX, lastY, action)
           IN  /\ mouseVec' = action
               /\ mouseFrom' = <<lastX, lastY>>
               /\ mousePressed' = r.pressed
               /\ lastX' = r.lastX
               /\ lastY' = r.lastY
               /\ mouseEvents' = r.events
               /\ UNCHANGED <<Width, Height, mouseNoHold, mouseTurn, bPressed,
                              bLastX, bLastY, mouseOut, closeIn, closeOut, keyVars>>

\* The Env has been used since its construction or last Reset in every way
\* a Reset that observes obsVec has to undo.
EnvUsed(obsVec) ==
    /\ timestep > 0
    /\ \E i \in DOMAIN hist : hist[i] # obsVec
    /\ IF actorKind = "key"
         THEN pressed # {}
         ELSE mousePressed /\ <<lastX, lastY>> # <<Width \div 2, Height \div 2>>

\* Env.Reset() when RawEnv.Reset, RawEnv.Observe or Observer.ObsVec fails:
\* the Actor and the step counter are reset, the joiner is not touched.
EnvResetFail ==
    /\ envPhase # "none"
    /\ \E e \in {"E_reset", "E_observe", "E_obsvec"} :
         envRet' = [op |-> "reset", obs |-> <<>>, reward |-> 0, done |-> FALSE,
                    err |-> AddCtx("reset", <<e>>)]
    /\ EnvActorReset
    /\ timestep' = 0
    /\ envPhase' = "failed"
    /\ rawSteps' = 0
    /\ UNCHANGED <<MaxSteps, RewardScale, rawReward, actorKind,
                   usedBefore, stepsOk, doneSeen, rawDone,
                   joinVars, notEnv>>

\* Env.Reset() when nothing fails: the first frame goes through
\* joiner.Reset and joiner.Step.
EnvReset ==
    /\ envPhase # "none"
    /\ \E obsVec \in Frames :
         /\ envRet' = [op |-> "reset",
                       obs |-> JoinerStep(JoinerReset(obsVec), obsVec).joined,
                       reward |-> 0, done |-> FALSE, err |-> AddCtx("reset", <<>>)]
         /\ DoJoinerStep(JoinerReset(obsVec), obsVec)
         /\ resetObs' = obsVec
         /\ usedBefore' = EnvUsed(obsVec)
    /\ EnvActorReset
    /\ timestep' = 0
    /\ envPhase' = "episode"
    /\ stepsOk' = 0
    /\ doneSeen' = FALSE
    /\ rawDone' = FALSE
    /\ rawReward' = 0
    /\ rawSteps' = 0
    /\ UNCHANGED <<MaxSteps, RewardScale, actorKind, notEnv>>

\* Mutant of StepTimestep: the counter is incremented before the errors are
\* looked at.
StepTimestepEarly(t, err) == t + 1

\* e.timestep at the return of Env.Step: the increment stands after the
\* three returns on an error.
StepTimestep(t, err) == IF err # <<>> THEN t ELSE t + 1

\* Env.Step(action) when RawEnv.Step fails, or RawEnv.Observe or
\* Observer.ObsVec after it: the error is returned as it is, with the reward
\* and done flag RawEnv.Step gave.
EnvStepFail ==
    /\ envPhase = "episode"
    /\ timestep <= MaxSteps
    /\ \E action \in EnvActions : EnvActorEvents(action)
    /\ \E e \in {"E_step", "E_observe", "E_obsvec"}, reward \in Rewards, done \in BOOLEAN :
         envRet' = [op |-> "step", obs |-> <<>>,
                    reward |-> IF e = "E_step" THEN 0 ELSE reward,
                    done |-> IF e = "E_step" THEN FALSE ELSE done,
                    err |-> <<e>>]
    /\ timestep' = StepTimestep(timestep, envRet'.err)
    /\ rawSteps' = 1
    /\ UNCHANGED <<MaxSteps, RewardScale, rawReward, actorKind, usedBefore,
                   envPhase, stepsOk, doneSeen, rawDone, joinVars, notEnv>>

\* Env.Step(action) when nothing fails.
EnvStep ==
    /\ envPhase = "episode"
    /\ timestep <= MaxSteps
    /\ \E action \in EnvActions : EnvActorEvents(action)
    /\ \E reward \in Rewards, done \in BOOLEAN, obsVec \in Frames :
         /\ envRet' = [op |-> "step", obs |-> JoinerStep(hist, obsVec).joined,
                       reward |-> reward, done |-> StepDone(done, timestep + 1),
                       err |-> <<>>]
         /\ DoJoinerStep(hist, obsVec)
         /\ resetObs' = <<>>
         /\ rawDone' = done
         /\ rawReward' = reward
         /\ doneSeen' = (doneSeen \/ StepDone(done, timestep + 1))
    /\ timestep' = StepTimestep(timestep, envRet'.err)
    /\ rawSteps' = 1
    /\ stepsOk' = stepsOk + 1
    /\ UNCHANGED <<MaxSteps, RewardScale, actorKind, usedBefore, envPhase, notEnv>>

NextEnv == EnvReset \/ EnvResetFail \/ EnvStep \/ EnvStepFail

SpecEnv == InitEnv /\ [][NextEnv]_vars

(***************************************************************************)
(* DownsampleObserver and AverageObserver.                                 *)
(***************************************************************************)

BufSeeds == {1, 37}

\* Byte i (from 0) of the RGB buffer muniverse.RGB gives for the raw
\* observation: InWidth * InHeight pixels of three bytes.
Buffer(i) == (i * bufSeed) % 256

\* essentials.Round(num / den) for num >= 0, den > 0.
Round(num, den) == (2 * num + den) \div (2 * den)

\* Mutant of ObsSize: the partial tail blocks are not counted.
ObsSizeFloor ==
    <<InWidth \div StrideX, InHeight \div StrideY, IF Color THEN 3 ELSE 1>>

\* DownsampleObserver.ObsSize(), which AverageObserver.ObsSize() calls with
\* its own fields: <<width, height, depth>>.
ObsSize ==
    <<(InWidth \div StrideX) + (IF InWidth % StrideX # 0 THEN 1 ELSE 0),
      (InHeight \div StrideY) + (IF InHeight % StrideY # 0 THEN 1 ELSE 0),
      IF Color THEN 3 ELSE 1>>

\* What DownsampleObserver.ObsVec appends for the pixel at sourceIdx.
DownPixel(sourceIdx) ==
    IF Color
      THEN <<Buffer(sourceIdx), Buffer(sourceIdx + 1), Buffer(sourceIdx + 2)>>
      ELSE <<Round(Buffer(sourceIdx) + Buffer(sourceIdx + 1)
                     + Buffer(sourceIdx + 2), 3)>>

\* Mutant of DownCols: a cell that reaches over the right edge is skipped.
RECURSIVE DownColsNoTail(_, _)
DownColsNoTail(y, x) ==
    IF x + StrideX > InWidth THEN <<>>
    ELSE DownPixel((y * InWidth + x) * 3) \o DownColsNoTail(y, x + StrideX)

\* The loop over x of DownsampleObserver.ObsVec, from x on: what it appends.
RECURSIVE DownCols(_, _)
DownCols(y, x) ==
    IF x >= InWidth THEN <<>>
    ELSE DownPixel((y * InWidth + x) * 3) \o DownCols(y, x + StrideX)

\* The loop over y of DownsampleObserver.ObsVec, from y on: what it appends.
RECURSIVE DownRows(_)
DownRows(y) ==
    IF y >= InHeight THEN <<>>
    ELSE DownCols(y, 0) \o DownRows(y + StrideY)

\* DownsampleObserver.ObsVec(obs)
DownsampleObsVec == DownRows(0)

\* The pixels of the cell at (x, y) that lie in the image.
CellPixels(x, y) ==
    {<<subX, subY>> \in (0..(StrideX - 1)) \X (0..(StrideY - 1)) :
        x + subX < InWidth /\ y + subY < InHeight}

\* The loops over subY and subX of AverageObserver.ObsVec for the cell at
\* (x, y), from the k-th sub-pixel on: what they add to sums[z].
RECURSIVE CellAcc(_, _, _, _)
CellAcc(x, y, z, k) ==
    IF k >= StrideX * StrideY THEN 0
    ELSE LET subX == k % StrideX
             subY == k \div StrideX
         IN  (IF <<subX, subY>> \in CellPixels(x, y)
                THEN Buffer(InWidth * (y + subY) * 3 + (x + subX) * 3 + z)
                ELSE 0)
             + CellAcc(x, y, z, k + 1)

\* sums[z] of AverageObserver.ObsVec for the cell at (x, y).
CellSum(x, y, z) == CellAcc(x, y, z, 0)

\* What AverageObserver.ObsVec appends for the cell at (x, y).
AvgCell(x, y) ==
    LET count == Cardinality(CellPixels(x, y))
    IN  IF Color
          THEN <<Round(CellSum(x, y, 0), count),
                 Round(CellSum(x, y, 1), count),
                 Round(CellSum(x, y, 2), count)>>
          ELSE <<Round(CellSum(x, y, 0) + CellSum(x, y, 1)
                         + CellSum(x, y, 2), count * 3)>>

\* The loop over x of AverageObserver.ObsVec, from x on: what it appends.
RECURSIVE AvgCols(_, _)
AvgCols(y, x) ==
    IF x >= InWidth THEN <<>>
    ELSE AvgCell(x, y) \o AvgCols(y, x + StrideX)

\* The loop over y of AverageObserver.ObsVec, from y on: what it appends.
RECURSIVE AvgRows(_)
AvgRows(y) ==
    IF y >= InHeight THEN <<>>
    ELSE AvgCols(y, 0) \o AvgRows(y + StrideY)

\* AverageObserver.ObsVec(obs)
AverageObsVec == AvgRows(0)

\* Observer.ObsVec(obs) of the configured observer.
ObsVec == IF obsKind = "average" THEN AverageObsVec ELSE DownsampleObsVec

\* The configurations: every small one, and the 64x64 input with strides 4.
InitObs ==
    /\ IdleRest
    /\ IdleMouse
    /\ obsKind \in {"downsample", "average"}
    /\ Color \in BOOLEAN
    /\ bufSeed \in BufSeeds
    /\ \/ /\ StrideX \in 1..MaxStride
          /\ StrideY \in 1..MaxStride
          /\ InWidth \in 0..MaxIn
          /\ InHeight \in 0..MaxIn
       \/ /\ StrideX = 4
          /\ StrideY = 4
          /\ InWidth = 64
          /\ InHeight = 64
    /\ obsSize = <<>>
    /\ obsVecDone = FALSE
    /\ obsVecOut = <<>>
    /\ IdleTrain
    /\ IdleKey
    /\ IdleJoin
    /\ IdleEnv

\* Observer.ObsSize()
ObsSizeCall ==
    /\ obsKind # "none"
    /\ obsSize' = ObsSize
    /\ UNCHANGED <<obsKind, StrideX, StrideY, InWidth, InHeight, Color, bufSeed,
                   obsVecDone, obsVecOut, notObs>>

\* Observer.ObsVec(obs) when muniverse.RGB succeeds.
ObsVecCall ==
    /\ obsKind # "none"
    /\ obsVecOut' = ObsVec
    /\ obsVecDone' = TRUE
    /\ UNCHANGED <<obsKind, StrideX, StrideY, InWidth, InHeight, Color, bufSeed,
                   obsSize, notObs>>

\* Observer.ObsVec(obs) when muniverse.RGB fails: nil and the error.
ObsVecFail ==
    /\ obsKind # "none"
    /\ obsVecOut' = <<>>
    /\ obsVecDone' = FALSE
    /\ UNCHANGED <<obsKind, StrideX, StrideY, InWidth, InHeight, Color, bufSeed,
                   obsSize, notObs>>

NextObs == ObsSizeCall \/ ObsVecCall \/ ObsVecFail

SpecObs == InitObs /\ [][NextObs]_vars

(***************************************************************************)
(* Claims about the observers.                                             *)
(***************************************************************************)

\* The least q with q * b >= a, for a >= 0 and b >= 1.
Ceil(a, b) == CHOOSE q \in 0..a : q * b >= a /\ \A r \in 0..a : r * b >= a => q <= r

\* C9: ObsSize of both observers is <<ceil(InWidth / StrideX),
\* ceil(InHeight / StrideY), 3 if Color else 1>>, for all strides >= 1 and
\* input sizes >= 0.
C9_ObsSizeCeil ==
    obsSize # <<>> =>
        obsSize = <<Ceil(InWidth, StrideX), Ceil(InHeight, StrideY),
                    IF Color THEN 3 ELSE 1>>

\* Witness of C9: strides 4, input 64x64, grayscale gives (16, 16, 1).
C9_Witness ==
    /\ StrideX = 4
    /\ StrideY = 4
    /\ InWidth = 64
    /\ InHeight = 64
    /\ ~Color
    /\ obsSize = <<16, 16, 1>>

\* C10: the vector ObsVec returns has width * height * depth elements,
\* <<width, height, depth>> being ObsSize(), for both observers, both Color
\* settings and input sizes that are no multiples of the strides.
C10_ObsVecLen ==
    obsVecDone => Len(obsVecOut) = ObsSize[1] * ObsSize[2] * ObsSize[3]

\* Witness of C10: a colour vector of partial tail cells in both directions.
C10_Witness ==
    /\ obsVecDone
    /\ Color
    /\ InWidth = 3
    /\ StrideX = 2
    /\ InHeight = 4
    /\ StrideY = 3
    /\ Len(obsVecOut) = 12

(***************************************************************************)
(* Claims about the ObsJoiner and the Env.                                 *)
(***************************************************************************)

\* C4: the episode cap of Env.Step. The k-th successful Step after a
\* successful Reset returns done exactly when the raw environment reported
\* done or k >= MaxSteps; so with MaxSteps >= 1 an episode in which no Step
\* has returned done yet has had fewer than MaxSteps steps.
C4_StepCap ==
    /\ (envRet.op = "step" /\ envRet.err = <<>>) =>
         (envRet.done <=> (rawDone \/ stepsOk >= MaxSteps))
    /\ (envPhase = "episode" /\ MaxSteps >= 1 /\ ~doneSeen) => stepsOk < MaxSteps

\* Witness of C4: the cap ends an episode the raw environment has not ended.
C4_Witness ==
    /\ envRet.op = "step"
    /\ envRet.err = <<>>
    /\ MaxSteps = MaxStepsCap
    /\ stepsOk = MaxSteps
    /\ ~rawDone
    /\ envRet.done

\* C7: zero apparent motion. Step(o) right after Reset(o) returns every
\* element of o repeated HistorySize + 1 times in place.
C7_ZeroMotion ==
    (resetObs # <<>> /\ joinCur = resetObs) =>
        joined = [j \in 1..(FrameLen * (HistorySize + 1)) |->
                    resetObs[((j - 1) \div (HistorySize + 1)) + 1]]

\* Witness of C7: a frame of two different elements, the longest history.
C7_Witness ==
    /\ HistorySize = MaxHistory
    /\ resetObs = <<0, 1>>
    /\ joinCur = resetObs
    /\ Len(joined) = 2 * (MaxHistory + 1)

\* C8: the layout of Step. With the history f_0 (oldest) .. f_{H-1} and the
\* current frame f_H, each of length n, the result has length n * (H + 1)
\* and its element i * (H + 1) + k is f_k[i] (indices from 0).
C8_Interleave ==
    joinCur # <<>> =>
        /\ Len(joinHist) = HistorySize
        /\ Len(joined) = FrameLen * (HistorySize + 1)
        /\ \A i \in 0..(FrameLen - 1), k \in 0..HistorySize :
             joined[i * (HistorySize + 1) + k + 1] =
                 (IF k < HistorySize THEN joinHist[k + 1] ELSE joinCur)[i + 1]

\* Witness of C8: three different frames, whose interleaving 0,0,1,0,1,1 is
\* not their concatenation 0,0,0,1,1,1.
C8_Witness ==
    /\ joinHist = << <<0, 0>>, <<0, 1>> >>
    /\ joinCur = <<1, 1>>
    /\ joined = <<0, 0, 1, 0, 1, 1>>

\* Env.Reset has just returned without an error.
ResetReturned == envRet.op = "reset" /\ envRet.err = <<>>

\* C13: no state leaks across episodes. Whatever was called before, a
\* successful Env.Reset leaves what a first Reset of a new Env with the same
\* first frame leaves: step counter 0, no key or button held, the cursor at
\* its reset position, and a history of copies of the first frame only.
C13_NoLeak ==
    ResetReturned =>
        /\ timestep = 0
        /\ actorKind = "key" => pressed = {}
        /\ actorKind = "mouse" =>
             /\ ~mousePressed
             /\ <<lastX, lastY>> = <<Width \div 2, Height \div 2>>
        /\ hist = [i \in 1..HistorySize |-> resetObs]

\* Witness of C13: the Reset of a MouseActor Env that had counted steps,
\* held the button away from the centre and kept another frame.
C13_Witness ==
    /\ ResetReturned
    /\ usedBefore
    /\ actorKind = "mouse"
    /\ HistorySize >= 1

\* The same for a KeyActor Env with a key held.
C13_KeyWitness ==
    /\ ResetReturned
    /\ usedBefore
    /\ actorKind = "key"
    /\ HistorySize >= 1

\* The errors of the raw environment and the observer, as they are made.
RawErrors == {<<"E_reset">>, <<"E_step">>, <<"E_observe">>, <<"E_obsvec">>}

\* C14: Env.Reset error wrapping. A Reset in which RawEnv.Reset,
\* RawEnv.Observe or Observer.ObsVec fails returns that error under the
\* context "reset" and no observation, and leaves the joiner as it was; a
\* Reset in which nothing fails returns a nil error.
C14_ResetWraps ==
    /\ [](envRet.op = "reset" =>
            /\ envPhase = "episode" => envRet.err = <<>>
            /\ envPhase = "failed" =>
                 /\ Len(envRet.err) = 2
                 /\ envRet.err[1] = "reset"
                 /\ <<envRet.err[2]>> \in RawErrors
                 /\ envRet.obs = <<>>)
    /\ [][(envRet'.op = "reset" /\ envPhase' = "failed") => joinVars' = joinVars]_vars

\* Witness of C14: ObsVec fails in the Reset after an episode; the history
\* of that episode is still in the joiner.
C14_Witness ==
    /\ envRet.op = "reset"
    /\ envRet.err = <<"reset", "E_obsvec">>
    /\ envPhase = "failed"
    /\ hist # <<>>
    /\ joined # <<>>

\* C15: Env.Step error context. A Step in which RawEnv.Step, RawEnv.Observe
\* or Observer.ObsVec fails returns the error under a context that names the
\* operation, as Env.Reset does with "reset".
C15_StepContext ==
    (envRet.op = "step" /\ envRet.err # <<>>) =>
        /\ Len(envRet.err) >= 2
        /\ <<envRet.err[Len(envRet.err)]>> \in RawErrors

\* The failing run of C15: the error of RawEnv.Step comes back bare.
C15_BareError ==
    /\ envRet.op = "step"
    /\ envRet.err = <<"E_step">>

(***************************************************************************)
(* Claims about the gather calls and the training loops.                   *)
(***************************************************************************)

\* The gather call of the current batch has returned.
GatherReturned == tpc \in {"run", "add", "lock", "save", "save_critic", "unlock"}

\* The gather call of the current batch is running.
Gathering == tpc \in {"g_spawn", "g_recv", "g_send", "g_close"}

Count(seq, t) == Cardinality({i \in DOMAIN seq : seq[i].tok = t})

\* The places a token or the trajectory made for it can be in.
Holders(t) ==
    Cardinality({i \in DOMAIN requests : requests[i] = t})
    + Cardinality({w \in Workers : wpc[w] \in {"rollout", "send"} /\ witem[w].tok = t})
    + Count(resChan, t)
    + Count(res, t)

\* C1: token-count gathering (TRPO). While the call runs, each of the
\* BatchSize pre-queued tokens is in exactly one place: still queued, with
\* exactly one worker, or turned into exactly one trajectory; and when the
\* call returns, it returns exactly BatchSize trajectories, one per token,
\* for every worker count and interleaving.
C1_ExactlyBatchSize ==
    (algo = "trpo" /\ NumParallel >= 1 /\ (Gathering \/ GatherReturned)) =>
        /\ \A t \in 1..BatchSize : Holders(t) = 1
        /\ GatherReturned =>
             /\ Len(rollouts) = BatchSize
             /\ \A t \in 1..BatchSize : Count(rollouts, t) = 1

\* Witness of C1: a full batch gathered by the largest pool, the
\* trajectories arriving out of token order.
C1_Witness ==
    /\ algo = "trpo"
    /\ tpc = "run"
    /\ NumParallel = MaxWorkers
    /\ BatchSize = MaxBatchSize
    /\ Len(rollouts) = MaxBatchSize
    /\ rollouts[1].tok # 1

UpdatesPerBatch == IF algo = "ppo" THEN Epochs ELSE 1

\* C3: the batch barrier. While the optimization step of a batch runs, every
\* worker of its gather call has exited and every trajectory they made is in
\* the batch; an episode in flight always sees the parameters it started
\* with; and while batch K is gathered exactly the updates of the batches
\* before K have been applied.
C3_BatchBarrier ==
    /\ tpc \in {"run", "add"} =>
         /\ \A w \in 1..NumParallel : wpc[w] = "exited"
         /\ resChan = <<>>
         /\ Len(rollouts) = rolled
    /\ \A w \in Workers : wpc[w] = "rollout" => wpv[w] = params
    /\ Gathering => params = batchIdx * UpdatesPerBatch

\* Witness of C3: the parameters are updated for the second batch, made of
\* several trajectories.
C3_Witness ==
    /\ tpc = "add"
    /\ batchIdx = 1
    /\ Len(rollouts) >= 2

(***************************************************************************)
(* Claims about checkpoints, shutdown and failures.                        *)
(***************************************************************************)

\* The parameters are being serialized or a checkpoint file is being written.
TrainSaving == tpc \in {"save", "save_critic"}

\* C16: a checkpoint write never overlaps a mutation of the parameters being
\* serialized.  No policy or critic file is ever a mix of parameters from
\* before and after an update; while the A3C saver is in the middle of a
\* SaveAny the agent it serializes still has the parameters the first part was
\* serialized from, whatever the workers submit meanwhile; in TRPO and PPO no
\* update happens while the loop is saving, and what a save wrote is what the
\* policy (and critic) hold until the lock is released.
C16_NoTornCheckpoint ==
    /\ [](/\ filePolicy # Torn
          /\ fileCritic # Torn
          /\ spc \in {"pol2", "crit2"} => saveBuf = AgentParams(local)
          /\ tpc \in {"save_critic", "unlock"} => filePolicy = params
          /\ (tpc = "unlock" /\ algo = "ppo") => fileCritic = params)
    /\ [][(params' # params /\ algo # "a3c") =>
            /\ ~TrainSaving
            /\ trainLock # "train"
            /\ filePolicy' = filePolicy
            /\ fileCritic' = fileCritic]_vars

\* C16 witness: a worker of A3C has updated the ParamServer after the saver
\* made its copy, and the policy file written holds the copy's parameters.
C16_Witness ==
    /\ algo = "a3c"
    /\ spc = "crit2"
    /\ local.val < params
    /\ filePolicy = local.val
    /\ saveBuf = local.val

\* C17: when A3C returns, a saveA3C call that was started after the shutdown
\* signal has completed, whatever the interleaving of the signal with the
\* saver goroutine.
C17_FinalCheckpoint ==
    (algo = "a3c" /\ mainPc = "exited") => savedAfter

\* C17: A3C has returned after the ParamServer was updated and no checkpoint
\* was ever written: the signal came before the saver's first loop test.
C17_NoCheckpoint ==
    /\ algo = "a3c"
    /\ mainPc = "exited"
    /\ params > 0
    /\ filePolicy = -1
    /\ fileCritic = -1

\* A3C has returned with a checkpoint on disk that was fetched before the
\* signal and before the last update: the select took the timer case.
A3CStaleCheckpoint ==
    /\ algo = "a3c"
    /\ mainPc = "exited"
    /\ ~savedAfter
    /\ filePolicy >= 0
    /\ filePolicy < params

\* C18: when the TRPO or PPO process exits after the shutdown signal, a
\* checkpoint of the policy as it is in the process (and of the critic, for
\* PPO) has been written after the signal.
C18_FinalCheckpoint ==
    (algo \in {"trpo", "ppo"} /\ mainPc = "exited") =>
        /\ savedAfter
        /\ filePolicy = params
        /\ algo = "ppo" => fileCritic = params

\* C18: the process has exited while the training loop was waiting for the
\* lock with an update it never saved, and nothing was written after the
\* signal.
C18_LostUpdate ==
    /\ algo \in {"trpo", "ppo"}
    /\ mainPc = "exited"
    /\ tpc = "lock"
    /\ ~savedAfter
    /\ filePolicy < params

\* A worker is inside roller.Rollout.
InFlight(w) == wpc[w] = "rollout"

\* C19: after the shutdown signal no worker of TRPO or PPO takes a token and
\* starts an episode, and the process does not exit while an episode is in
\* flight.
C19_Cooperative ==
    /\ ~tookAfter
    /\ mainPc = "exited" => \A w \in Workers : ~InFlight(w)

\* C19: the process has exited with an episode in flight, after a worker had
\* started an episode later than the signal.
C19_CutOff ==
    /\ mainPc = "exited"
    /\ tookAfter
    /\ \E w \in Workers : InFlight(w)

\* A worker whose roller.Rollout returned an error.
Failed(w) == wpc[w] = "err"

\* C20: a rollout error is fatal and nothing is retried.  A worker whose
\* rollout failed never goes on (it neither re-runs the episode nor takes
\* another token nor sends anything), the step that takes it out of the
\* program is the end of the process, leaving requests, the results, the
\* batch and the parameters as they were, and no step follows the end of the
\* process.  (The other end of a TRPO / PPO process by essentials.Die is a
\* failed SaveAny, inside the save steps of the training loop.)
C20_RolloutErrorFatal ==
    /\ [][\A w \in Workers : Failed(w) =>
            /\ wpc'[w] = wpc[w]
            /\ witem'[w] = witem[w]]_vars
    /\ [][(died' # died /\ algo # "a3c" /\ ~TrainSaving) =>
            /\ \E w \in Workers : Failed(w)
            /\ died' = "rollout error"
            /\ requests' = requests
            /\ resChan' = resChan
            /\ res' = res
            /\ rollouts' = rollouts
            /\ rolled' = rolled
            /\ params' = params
            /\ tpc' = tpc]_vars
    /\ [][died = ""]_vars

\* C20 witness: the process of TRPO or PPO has been ended by a rollout error
\* while a token was waiting in requests and an episode of the batch had
\* already succeeded.
C20_Witness ==
    /\ died = "rollout error"
    /\ \E w \in Workers : Failed(w)
    /\ requests # <<>>
    /\ rolled > 0

(***************************************************************************)
(* Trainer.Fetch: a batch of demonstrations from a list of recordings.     *)
(***************************************************************************)

\* The recordings a sample can stand for: its number of steps, whether
\* OpenRecording succeeds, and the step whose ReadObs fails (-1: none does).
Recordings ==
    {r \in [n : 0..MaxRecLen, open : BOOLEAN, bad : -1..(MaxRecLen - 1)] :
        r.bad < r.n}

\* The sample lists Fetch is called with.
SampleLists == UNION {[1..m -> Recordings] : m \in 0..MaxRecs}

\* What Observer.ObsVec makes of the observation of step i of recording j.
FetchObs(j, i) == <<j * (MaxRecLen + 1) + i>>

\* What the Actor of recording j makes of the events of step i.
FetchAct(j, i) == <<0 - (j * (MaxRecLen + 1) + i) - 1>>

\* The variables a Fetch call leaves alone.
notFetch == <<trainVars, keyVars, joinVars, envVars, obsVars, mouseVars,
             startVars, agentVars, winVars,
              cursorVars, keyPairVars>>

InitFetch ==
    /\ samples \in SampleLists
    /\ fpc = "start"
    /\ fOpened = 0
    /\ fTapes = FALSE
    /\ fi = 0
    /\ inTape = <<>>
    /\ outTape = <<>>
    /\ fHists = <<>>
    /\ fLog = <<>>
    /\ fRet = NoFetch
    /\ HistorySize \in 0..MaxHistory
    /\ FrameLen = 1
    /\ joinReady = FALSE
    /\ hist = <<>>
    /\ joined = <<>>
    /\ joinHist = <<>>
    /\ joinCur = <<>>
    /\ resetObs = <<>>
    /\ IdleTrain
    /\ IdleKey
    /\ IdleEnv
    /\ IdleObs
    /\ IdleMouse
    /\ IdleStart
    /\ IdleAgent
    /\ IdleWindow
    /\ IdleCursor
    /\ IdleKeyPair

\* return nil, err: the deferred AddCtxTo("fetch batch", &err) runs.
FetchFail(err) ==
    /\ fRet' = [batch |-> "nil", err |-> AddCtx("fetch batch", err)]
    /\ fpc' = "done"

\* Mutant of EmptyCheck: an empty list is let through.
EmptyCheckNone(s) == FALSE

\* if s.Len() == 0
EmptyCheck(s) == Len(s) = 0

\* The head of Fetch: the test for the empty batch.
FetchStart ==
    /\ fpc = "start"
    /\ IF EmptyCheck(samples)
         THEN FetchFail(<<"empty batch">>)
         ELSE fpc' = "open" /\ UNCHANGED fRet
    /\ UNCHANGED <<samples, fOpened, fTapes, fi, inTape, outTape, fHists, fLog,
                   notFetch>>

\* One turn of the first loop: OpenRecording, MakeActor, Reset.
FetchOpen ==
    /\ fpc = "open"
    /\ fOpened < Len(samples)
    /\ IF samples[fOpened + 1].open
         THEN /\ fOpened' = fOpened + 1
              /\ fLog' = Append(fLog, <<>>)
              /\ UNCHANGED <<fpc, fRet>>
         ELSE /\ FetchFail(<<"open recording">>)
              /\ UNCHANGED <<fOpened, fLog>>
    /\ UNCHANGED <<samples, fTapes, fi, inTape, outTape, fHists, notFetch>>

\* The tapes and the ObsJoiners are made.
FetchTapes ==
    /\ fpc = "open"
    /\ fOpened = Len(samples)
    /\ fTapes' = TRUE
    /\ fHists' = [j \in 1..Len(samples) |-> <<>>]
    /\ fpc' = "loop"
    /\ UNCHANGED <<samples, fOpened, fi, inTape, outTape, fLog, fRet, notFetch>>

\* Mutant of Pres: the last step of a recording counts as beyond its end.
PresShort(i, j) == i < samples[j].n - 1

\* pres := i < recording.NumSteps()
Pres(i, j) == i < samples[j].n

\* The history the ObsJoiner of recording j steps from at timestep i.
FetchHist(i, j) == IF i = 0 THEN JoinerReset(FetchObs(j, 0)) ELSE fHists[j]

\* inVecs after the recordings j.. have been gone through.
RECURSIVE FetchInVecs(_, _)
FetchInVecs(i, j) ==
    IF j > Len(samples) THEN <<>>
    ELSE (IF Pres(i, j)
            THEN JoinerStep(FetchHist(i, j), FetchObs(j, i)).joined
            ELSE <<>>) \o FetchInVecs(i, j + 1)

\* outVecs after the recordings j.. have been gone through.
RECURSIVE FetchOutVecs(_, _)
FetchOutVecs(i, j) ==
    IF j > Len(samples) THEN <<>>
    ELSE (IF Pres(i, j) THEN FetchAct(j, i) ELSE <<>>) \o FetchOutVecs(i, j + 1)

\* One turn of the outer loop: the inner loop over the recordings, then the
\* break or the two sends.
FetchTimestep ==
    /\ fpc = "loop"
    /\ IF \E j \in 1..Len(samples) : Pres(fi, j) /\ samples[j].bad = fi
         THEN /\ FetchFail(<<"read observation">>)
              /\ UNCHANGED <<fi, inTape, outTape, fHists, fLog>>
         ELSE IF \A j \in 1..Len(samples) : ~Pres(fi, j)
         THEN /\ fRet' = [batch |-> "batch", err |-> <<>>]
              /\ fpc' = "done"
              /\ UNCHANGED <<fi, inTape, outTape, fHists, fLog>>
         ELSE /\ inTape' = Append(inTape,
                     [packed |-> FetchInVecs(fi, 1),
                      present |-> [j \in 1..Len(samples) |-> Pres(fi, j)]])
              /\ outTape' = Append(outTape,
                     [packed |-> FetchOutVecs(fi, 1),
                      present |-> [j \in 1..Len(samples) |-> Pres(fi, j)]])
              /\ fHists' = [j \in 1..Len(samples) |->
                     IF Pres(fi, j)
                       THEN JoinerStep(FetchHist(fi, j), FetchObs(j, fi)).hist
                       ELSE fHists[j]]
              /\ fLog' = [j \in 1..Len(samples) |->
                     IF Pres(fi, j) THEN Append(fLog[j], fi) ELSE fLog[j]]
              /\ fi' = fi + 1
              /\ UNCHANGED <<fpc, fRet>>
    /\ UNCHANGED <<samples, fOpened, fTapes, notFetch>>

NextFetch == FetchStart \/ FetchOpen \/ FetchTapes \/ FetchTimestep

SpecFetch == InitFetch /\ [][NextFetch]_vars

(***************************************************************************)
(* Claims about Trainer.Fetch.                                             *)
(***************************************************************************)

\* The number of sequences a tape holds: the length of the present mask of
\* its first timestep, none for a tape without timesteps.
NumSeqs(tape) == IF tape = <<>> THEN 0 ELSE Len(tape[1].present)

\* Fetch has returned a batch.
FetchedBatch == fpc = "done" /\ fRet.batch = "batch"

\* An empty sample list is answered with a nil batch and the error
\* "fetch batch: empty batch", before any recording is opened and before the
\* tapes are made.
C21_EmptyBatchError ==
    (fpc = "done" /\ Len(samples) = 0) =>
        /\ fRet = [batch |-> "nil", err |-> <<"fetch batch", "empty batch">>]
        /\ fOpened = 0
        /\ ~fTapes

\* C21: Fetch called with an empty sample list returns a nil batch and the
\* error "empty batch" with the context "fetch batch" before it opens a
\* recording or makes a tape, and Fetch never returns a batch with zero
\* sequences.
C21_NoEmptyBatch ==
    /\ C21_EmptyBatchError
    /\ FetchedBatch => (NumSeqs(inTape) > 0 /\ NumSeqs(outTape) > 0)

\* C21: Fetch was called with a list that is not empty and has returned,
\* without an error, a batch whose tapes hold no timestep at all.
C21_EmptyTapes ==
    /\ FetchedBatch
    /\ Len(samples) > 0
    /\ fRet.err = <<>>
    /\ inTape = <<>>
    /\ outTape = <<>>

\* The longest of the recordings.
RECURSIVE LongestRecording(_)
LongestRecording(j) ==
    IF j > Len(samples) THEN 0
    ELSE IF samples[j].n > LongestRecording(j + 1) THEN samples[j].n
    ELSE LongestRecording(j + 1)

\* The frames of recording j up to step i, after HistorySize copies of the
\* first one.
Padded(j, i) ==
    [k \in 1..(HistorySize + i + 1) |->
        IF k <= HistorySize THEN FetchObs(j, 0) ELSE FetchObs(j, k - HistorySize - 1)]

\* The joined vector of step i of recording j: the elements of the last
\* HistorySize + 1 frames of Padded(j, i), oldest first.
ExpectIn(j, i) == [k \in 1..(HistorySize + 1) |-> Padded(j, i)[i + k][1]]

\* One vector per recording of j.. that has a step i, in recording order.
RECURSIVE ExpectPacked(_, _, _)
ExpectPacked(kind, i, j) ==
    IF j > Len(samples) THEN <<>>
    ELSE (IF i < samples[j].n
            THEN (IF kind = "in" THEN ExpectIn(j, i) ELSE FetchAct(j, i))
            ELSE <<>>) \o ExpectPacked(kind, i, j + 1)

\* C22: when Fetch returns a batch for recordings of n_1..n_m steps, both
\* tapes hold exactly max n_j timesteps; at timestep i the mask entry of
\* recording j is true exactly when i < n_j; the packed observations and
\* actions hold one vector per present recording, in recording order, the
\* observation vector being the join of the recording's own last frames; and
\* the Actor of each recording has been given its steps 0, 1, ..., n_j - 1 in
\* that order.  While the loop runs the tapes hold one timestep per turn.
C22_PresentMask ==
    /\ fpc = "loop" => (Len(inTape) = fi /\ Len(outTape) = fi)
    /\ FetchedBatch =>
        /\ Len(inTape) = LongestRecording(1)
        /\ Len(outTape) = LongestRecording(1)
        /\ \A t \in 1..Len(inTape) :
            /\ inTape[t].present = [j \in 1..Len(samples) |-> t - 1 < samples[j].n]
            /\ outTape[t].present = inTape[t].present
            /\ inTape[t].packed = ExpectPacked("in", t - 1, 1)
            /\ outTape[t].packed = ExpectPacked("out", t - 1, 1)
        /\ \A j \in 1..Len(samples) :
            fLog[j] = [k \in 1..samples[j].n |-> k - 1]

\* C22 witness: a batch of two recordings, the first shorter than the second,
\* with a history: at the last timestep only the second is present.
C22_Witness ==
    /\ FetchedBatch
    /\ Len(samples) = 2
    /\ HistorySize > 0
    /\ samples[1].n = 1
    /\ samples[2].n = MaxRecLen
    /\ inTape[MaxRecLen].present = <<FALSE, TRUE>>

(***************************************************************************)
(* The start of a sub-command: MustSpecForName, LoadOrMakeAgent, the       *)
(* environments and the goroutines.                                        *)
(***************************************************************************)

\* The names registry entries have, and the names -env is given.
SpecNames == {"A-v0", "B-v0"}
EnvNames == SpecNames \cup {"", "C-v0"}

\* The variables the start of a sub-command leaves alone.
notStart == <<trainVars, keyVars, joinVars, envVars, obsVars, mouseVars,
              fetchVars, agentVars, winVars,
              cursorVars, keyPairVars>>

\* Mutant of SpecForNameFrom: the search goes on after a match.
RECURSIVE SpecForNameLast(_, _)
SpecForNameLast(k, name) ==
    IF k > Len(EnvSpecs) THEN 0
    ELSE IF SpecForNameLast(k + 1, name) # 0 THEN SpecForNameLast(k + 1, name)
    ELSE IF EnvSpecs[k] = name THEN k
    ELSE 0

\* The loop of SpecForName from entry k on; 0 stands for nil.
RECURSIVE SpecForNameFrom(_, _)
SpecForNameFrom(k, name) ==
    IF k > Len(EnvSpecs) THEN 0
    ELSE IF EnvSpecs[k] = name THEN k
    ELSE SpecForNameFrom(k + 1, name)

SpecForName(name) == SpecForNameFrom(1, name)

\* Mutant of MustExit: a nil spec is let through.
MustExitNever(spec) == FALSE

\* MustSpecForName: if spec == nil, essentials.Die.
MustExit(spec) == spec = 0

InitStart ==
    /\ EnvSpecs \in UNION {[1..m -> SpecNames] : m \in 0..MaxSpecs}
    /\ EnvName \in EnvNames
    /\ cmd \in {"trpo", "ppo", "a3c", "clone"}
    /\ startPc = "spec"
    /\ startSpec = 0
    /\ startDied = <<>>
    /\ startLoaded = FALSE
    /\ startEnvs = 0
    /\ startGo = FALSE
    /\ IdleFetch
    /\ IdleAgent
    /\ IdleWindow
    /\ IdleCursor
    /\ IdleKeyPair
    /\ IdleTrain
    /\ IdleKey
    /\ IdleJoin
    /\ IdleEnv
    /\ IdleObs
    /\ IdleMouse

\* spec := MustSpecForName(flags.EnvName)
StartSpec ==
    /\ startPc = "spec"
    /\ startSpec' = SpecForName(EnvName)
    /\ IF MustExit(SpecForName(EnvName))
         THEN /\ startDied' = <<"unsupported environment:", EnvName>>
              /\ startPc' = "exit"
         ELSE /\ startPc' = "load"
              /\ UNCHANGED startDied
    /\ UNCHANGED <<EnvSpecs, EnvName, cmd, startLoaded, startEnvs, startGo,
                   notStart>>

\* LoadOrMakeAgent(c, spec, ...): serializer.LoadAny on the checkpoint files.
StartLoad ==
    /\ startPc = "load"
    /\ startLoaded' = TRUE
    /\ startPc' = IF cmd = "a3c" THEN "envs" ELSE "go"
    /\ UNCHANGED <<EnvSpecs, EnvName, cmd, startSpec, startDied, startEnvs,
                   startGo, notStart>>

\* A3C: one turn of the loop that calls NewEnv, and its end.
StartEnv ==
    /\ startPc = "envs"
    /\ IF startEnvs < MaxWorkers
         THEN startEnvs' = startEnvs + 1 /\ UNCHANGED startPc
         ELSE startPc' = "go" /\ UNCHANGED startEnvs
    /\ UNCHANGED <<EnvSpecs, EnvName, cmd, startSpec, startDied, startLoaded,
                   startGo, notStart>>

\* The training goroutine (TRPO, PPO) or the saver goroutine (A3C) is
\* started; Clone goes on to read its samples.
StartGo ==
    /\ startPc = "go"
    /\ startGo' = (cmd # "clone")
    /\ startPc' = "running"
    /\ UNCHANGED <<EnvSpecs, EnvName, cmd, startSpec, startDied, startLoaded,
                   startEnvs, notStart>>

NextStart == StartSpec \/ StartLoad \/ StartEnv \/ StartGo

SpecStart == InitStart /\ [][NextStart]_vars

(***************************************************************************)
(* Claims about the start of a sub-command.                                *)
(***************************************************************************)

\* The entries of the registry whose Name is the name given.
Matches == {k \in 1..Len(EnvSpecs) : EnvSpecs[k] = EnvName}

\* C23: for every sub-command, when the -env name is missing or matches no
\* entry of EnvSpecs the process is ended by MustSpecForName with nothing
\* loaded, no environment created and no goroutine started; when it matches,
\* the spec used is the first entry of that name and the start goes on.
C23_UnknownEnvFatal ==
    startPc # "spec" =>
        IF Matches = {}
          THEN /\ startPc = "exit"
               /\ startDied = <<"unsupported environment:", EnvName>>
               /\ startSpec = 0
               /\ ~startLoaded
               /\ startEnvs = 0
               /\ ~startGo
          ELSE /\ startPc # "exit"
               /\ startDied = <<>>
               /\ startSpec \in Matches
               /\ \A k \in Matches : startSpec <= k

\* C23 witness: a sub-command started without -env on a full registry has
\* been ended.
C23_Witness ==
    /\ startPc = "exit"
    /\ EnvName = ""
    /\ Len(EnvSpecs) = MaxSpecs

\* A registry with two entries of the name given: the first one was taken.
C23_FirstEntry ==
    /\ startPc = "running"
    /\ Matches = {2, 3}
    /\ startSpec = 2

(***************************************************************************)
(* Further claims about the gather calls.                                  *)
(***************************************************************************)

\* The workers the gather call has started.
Spawned == 1..spawnIdx

\* C24: exclusive ownership in the rollout pool.  Every worker a gather call
\* has started holds an Env of its own: no two workers have the same RawEnv,
\* the same Actor or the same ObsJoiner, so no two episodes in flight run on
\* the same Env; the Actor and the ObsJoiner of an Env are the ones made with
\* it; and the call has made as many Envs as it has started workers,
\* NumParallel when it returns.
C24_ExclusiveEnv ==
    (Gathering \/ GatherReturned) =>
        /\ \A w \in Spawned : wenv[w] # NoEnv
        /\ \A w \in Workers \ Spawned : wenv[w] = NoEnv /\ wpc[w] = "none"
        /\ \A w, v \in Spawned :
              w # v =>
                /\ wenv[w].raw # wenv[v].raw
                /\ wenv[w].actor # wenv[v].actor
                /\ wenv[w].joiner # wenv[v].joiner
        /\ envCount = spawnIdx
        /\ GatherReturned => envCount = NumParallel

\* C24 witness: two workers are inside roller.Rollout at the same time.
C24_Witness ==
    /\ Gathering
    /\ \E w, v \in Spawned :
          /\ w # v
          /\ InFlight(w)
          /\ InFlight(v)
          /\ wenv[w] # wenv[v]

\* The steps of the trajectories of a sequence, summed.
RECURSIVE SumLen(_)
SumLen(seq) == IF seq = <<>> THEN 0 ELSE Head(seq).len + SumLen(Tail(seq))

\* The workers that hold a finished trajectory they have not sent yet.
Sending == {w \in Workers : wpc[w] = "send"}

\* C25: minimum batch steps (PPO, NumParallel >= 1).  While the call runs,
\* every trajectory a worker has produced is in exactly one place: with the
\* worker that is about to send it, in resChan, or in res.  When the call has
\* returned, the batch holds every trajectory produced, once, and the episode
\* lengths of the batch sum to at least BatchSteps.
C25_MinBatchSteps ==
    (algo = "ppo" /\ NumParallel >= 1) =>
        /\ Gathering =>
             rolled = Cardinality(Sending) + Len(resChan) + Len(res)
        /\ GatherReturned =>
             /\ Len(rollouts) = rolled
             /\ rollouts = res
             /\ Sending = {}
             /\ resChan = <<>>
             /\ SumLen(rollouts) = numSteps
             /\ SumLen(rollouts) >= BatchSteps

\* C25 witness: a PPO call with the largest threshold has returned more steps
\* than the threshold, the last trajectory having arrived when the threshold
\* was already crossed.
C25_Witness ==
    /\ algo = "ppo"
    /\ tpc = "run"
    /\ BatchSteps = MaxBatchSteps
    /\ SumLen(rollouts) > BatchSteps
    /\ SumLen(rollouts) - rollouts[Len(rollouts)].len >= BatchSteps

\* C29: once the coordinator of gatherPPORollouts has closed requests, no
\* worker begins an episode: the tokens still in the queue are discarded, and
\* only the episodes in flight at the closing add trajectories.
C29_DrainedAtClose ==
    [][\A w \in Workers :
         (algo = "ppo" /\ requestsClosed /\ ~InFlight(w)) => ~InFlight(w)']_vars

\* C29: requests has been closed at the threshold with a token still in it
\* and a worker back at the head of its loop, which will take the token.
C29_TokenLeft ==
    /\ algo = "ppo"
    /\ requestsClosed
    /\ numSteps >= BatchSteps
    /\ requests # <<>>
    /\ \E w \in Workers : wpc[w] = "range"

\* The trajectories on their way to the coordinator: held by a worker that
\* is sending, buffered in resChan, or received by the coordinator, which
\* has not yet re-queued a token or closed requests for it.
Unprocessed ==
    Cardinality(Sending) + Len(resChan)
    + (IF tpc \in {"g_send", "g_close"} THEN 1 ELSE 0)

\* The workers with an episode in flight.
Rolling == {w \in Workers : InFlight(w)}

\* C36: token conservation in gatherPPORollouts. For NumParallel >= 1, as
\* long as requests is not closed, the tokens in requests, the episodes in
\* flight and the trajectories not yet processed by the coordinator add up
\* to NumParallel; so the coordinator's send on requests finds room, and at
\* most NumParallel episodes are in flight.
C36_TokenConservation ==
    (algo = "ppo" /\ NumParallel >= 1 /\ Gathering /\ ~requestsClosed) =>
        /\ Len(requests) + Cardinality(Rolling) + Unprocessed = NumParallel
        /\ tpc = "g_send" => Len(requests) < RequestsCap
        /\ Cardinality(Rolling) <= NumParallel

\* Witness of C36: the largest Pool of PPO, requests open and empty, one
\* episode in flight while the coordinator is about to re-queue the token of
\* a trajectory it has received, after an earlier refill.
C36_Witness ==
    /\ algo = "ppo"
    /\ NumParallel = MaxWorkers
    /\ ~requestsClosed
    /\ tpc = "g_send"
    /\ requests = <<>>
    /\ Cardinality(Rolling) = NumParallel - 1
    /\ Len(res) >= 2

(***************************************************************************)
(* MakeAgent and DecomposeAgent.                                           *)
(***************************************************************************)

\* The layers a network is made of, and the critic blocks.
Layers == {"conv", "fc", "out"}
Critics == {"critic1", "critic2"}

\* &anyrnn.LayerBlock{Layer: net}
LayerBlock(net) == [type |-> "LayerBlock", Layer |-> net]

\* anyrnn.Stack{block}
Stack(block) == [type |-> "Stack", blocks |-> <<block>>]

\* The policies MakePolicy and a checkpoint give: one LayerBlock in a Stack.
Policies == {Stack(LayerBlock(net)) :
                net \in UNION {[1..n -> Layers] : n \in 0..MaxLayers}}

\* The variables MakeAgent and DecomposeAgent leave alone.
notAgent == <<trainVars, keyVars, joinVars, envVars, obsVars, mouseVars,
              fetchVars, startVars, winVars,
              cursorVars, keyPairVars>>

\* The variables of the PPO loop over the agent.
ckptVars == <<agHeap, agEpochs, agBatch, agEpoch, agFiles>>

\* Mutant of ActorNet: the actor gets no layer.
ActorNetNone(policyNet) == <<>>

\* Mutant of BaseNet: the base keeps every layer.
BaseNetAll(policyNet) == policyNet

\* policyNet[:len(policyNet)-1]
BaseNet(policyNet) == SubSeq(policyNet, 1, Len(policyNet) - 1)

\* policyNet[len(policyNet)-1:]
ActorNet(policyNet) == SubSeq(policyNet, Len(policyNet), Len(policyNet))

\* MakeAgent(c, e, policy, critic), for a policy with a layer.
MakeAgent(policy, critic) ==
    [Base |-> LayerBlock(BaseNet(policy.blocks[1].Layer)),
     Actor |-> LayerBlock(ActorNet(policy.blocks[1].Layer)),
     Critic |-> critic]

\* DecomposeAgent(a)
DecomposeAgent(a) ==
    [policy |-> Stack(LayerBlock(a.Base.Layer \o a.Actor.Layer)),
     critic |-> a.Critic]

InitAgent ==
    /\ agPolicy \in Policies
    /\ agCritic \in Critics
    /\ agPc = "make"
    /\ agAgent = <<>>
    /\ agOut = <<>>
    /\ agHeap = <<>>
    /\ agEpochs = 0
    /\ agBatch = 0
    /\ agEpoch = 0
    /\ agFiles = <<>>
    /\ IdleFetch
    /\ IdleStart
    /\ IdleWindow
    /\ IdleCursor
    /\ IdleKeyPair
    /\ IdleTrain
    /\ IdleKey
    /\ IdleJoin
    /\ IdleEnv
    /\ IdleObs
    /\ IdleMouse

\* MakeAgent is called; slicing a network without layers panics.
MakeAgentCall ==
    /\ agPc = "make"
    /\ IF Len(agPolicy.blocks[1].Layer) = 0
         THEN agPc' = "panic" /\ UNCHANGED agAgent
         ELSE /\ agAgent' = MakeAgent(agPolicy, agCritic)
              /\ agPc' = "decompose"
    /\ UNCHANGED <<agPolicy, agCritic, agOut, ckptVars, notAgent>>

\* DecomposeAgent is called with the agent.
DecomposeAgentCall ==
    /\ agPc = "decompose"
    /\ agOut' = DecomposeAgent(agAgent)
    /\ agPc' = "done"
    /\ UNCHANGED <<agPolicy, agCritic, agAgent, ckptVars, notAgent>>

NextAgent == MakeAgentCall \/ DecomposeAgentCall

SpecAgent == InitAgent /\ [][NextAgent]_vars

\* The layers of the policy MakeAgent was called with.
PolicyNet == agPolicy.blocks[1].Layer

\* C26: for a policy of one LayerBlock with n >= 1 layers and any critic,
\* the agent has the first n - 1 layers as its base and the last layer as its
\* actor, and DecomposeAgent gives back a policy with the same layers in the
\* same order and the same critic.
C26_AgentRoundTrip ==
    /\ (agPc \in {"decompose", "done"}) =>
         /\ Len(PolicyNet) >= 1
         /\ Len(agAgent.Base.Layer) = Len(PolicyNet) - 1
         /\ \A k \in 1..(Len(PolicyNet) - 1) : agAgent.Base.Layer[k] = PolicyNet[k]
         /\ agAgent.Actor.Layer = <<PolicyNet[Len(PolicyNet)]>>
         /\ agAgent.Critic = agCritic
    /\ agPc = "done" =>
         /\ agOut.policy = agPolicy
         /\ agOut.critic = agCritic
    /\ agPc = "panic" => Len(PolicyNet) = 0

\* C26 witness: a policy of the largest number of layers, not all alike, has
\* made the round trip.
C26_Witness ==
    /\ agPc = "done"
    /\ Len(PolicyNet) = MaxLayers
    /\ PolicyNet[1] # PolicyNet[MaxLayers]
    /\ agOut.policy.blocks[1].Layer = PolicyNet

(***************************************************************************)
(* PPO's loop over the agent MakeAgent built: updates and checkpoints.     *)
(***************************************************************************)

\* The layer objects: a layer of the policy is its address, the critic block
\* is the address 0.
CriticRef == 0
LayerRefs == 0..MaxLayers

\* The policies as objects: a Stack of one LayerBlock over layer addresses.
RefPolicies == {Stack(LayerBlock([i \in 1..n |-> i])) : n \in 0..MaxLayers}

\* The set of the elements of a sequence.
Range(q) == {q[i] : i \in DOMAIN q}

\* agent.AllParameters(): the parameters of the layers of Base, Actor and
\* Critic.
AllParameters(agent) ==
    Range(agent.Base.Layer) \cup Range(agent.Actor.Layer) \cup {agent.Critic}

\* g.AddToVars() for a gradient over the parameters ps.
AddToVars(heap, ps) ==
    [r \in DOMAIN heap |-> IF r \in ps THEN heap[r] + 1 ELSE heap[r]]

\* What serializer.SaveAny writes for the policy: its layers, as they are.
SavedPolicy(policy, heap) ==
    [i \in 1..Len(policy.blocks[1].Layer) |-> heap[policy.blocks[1].Layer[i]]]

InitCkpt ==
    /\ agPolicy \in RefPolicies
    /\ agCritic = CriticRef
    /\ agPc = "make"
    /\ agAgent = <<>>
    /\ agOut = <<>>
    /\ agHeap = [r \in LayerRefs |-> 0]
    /\ agEpochs \in 0..(MaxEpochs + 1)
    /\ agBatch = 0
    /\ agEpoch = 0
    /\ agFiles = [policy |-> <<>>, critic |-> <<>>]
    /\ IdleFetch
    /\ IdleStart
    /\ IdleWindow
    /\ IdleCursor
    /\ IdleKeyPair
    /\ IdleTrain
    /\ IdleKey
    /\ IdleJoin
    /\ IdleEnv
    /\ IdleObs
    /\ IdleMouse

\* agent := MakeAgent(c, spec, policy, critic); ppo.Params is
\* agent.AllParameters().
CkptMakeAgent ==
    /\ agPc = "make"
    /\ IF Len(agPolicy.blocks[1].Layer) = 0
         THEN agPc' = "panic" /\ UNCHANGED agAgent
         ELSE /\ agAgent' = MakeAgent(agPolicy, agCritic)
              /\ agPc' = "gather"
    /\ UNCHANGED <<agPolicy, agCritic, agOut, ckptVars, notAgent>>

\* The top of the batch loop: the rollouts are gathered and packed.
CkptGather ==
    /\ agPc = "gather"
    /\ agBatch < MaxBatches
    /\ agEpoch' = 0
    /\ agPc' = "run"
    /\ UNCHANGED <<agPolicy, agCritic, agAgent, agOut, agHeap, agEpochs,
                   agBatch, agFiles, notAgent>>

\* i < flags.Epochs: ppo.Run, Transform and Scale make the gradient.
CkptRun ==
    /\ agPc = "run"
    /\ agEpoch < agEpochs
    /\ agPc' = "add"
    /\ UNCHANGED <<agPolicy, agCritic, agAgent, agOut, ckptVars, notAgent>>

\* g.AddToVars(); i++
CkptAddToVars ==
    /\ agPc = "add"
    /\ agHeap' = AddToVars(agHeap, AllParameters(agAgent))
    /\ agEpoch' = agEpoch + 1
    /\ agPc' = "run"
    /\ UNCHANGED <<agPolicy, agCritic, agAgent, agOut, agEpochs, agBatch,
                   agFiles, notAgent>>

\* The epoch loop is over; trainLock.Lock()
CkptEpochsDone ==
    /\ agPc = "run"
    /\ agEpoch >= agEpochs
    /\ agPc' = "save"
    /\ UNCHANGED <<agPolicy, agCritic, agAgent, agOut, ckptVars, notAgent>>

\* serializer.SaveAny(flags.PolicyFile, policy) succeeds.
CkptSavePolicy ==
    /\ agPc = "save"
    /\ agFiles' = [agFiles EXCEPT !.policy = SavedPolicy(agPolicy, agHeap)]
    /\ agPc' = "save_critic"
    /\ UNCHANGED <<agPolicy, agCritic, agAgent, agOut, agHeap, agEpochs,
                   agBatch, agEpoch, notAgent>>

\* serializer.SaveAny(flags.CriticFile, critic) succeeds.
CkptSaveCritic ==
    /\ agPc = "save_critic"
    /\ agFiles' = [agFiles EXCEPT !.critic = <<agHeap[agCritic]>>]
    /\ agPc' = "unlock"
    /\ UNCHANGED <<agPolicy, agCritic, agAgent, agOut, agHeap, agEpochs,
                   agBatch, agEpoch, notAgent>>

\* A SaveAny fails: essentials.Die.
CkptSaveFail ==
    /\ agPc \in {"save", "save_critic"}
    /\ agPc' = "died"
    /\ UNCHANGED <<agPolicy, agCritic, agAgent, agOut, ckptVars, notAgent>>

\* trainLock.Unlock(); batchIdx++
CkptUnlock ==
    /\ agPc = "unlock"
    /\ agBatch' = agBatch + 1
    /\ agPc' = "gather"
    /\ UNCHANGED <<agPolicy, agCritic, agAgent, agOut, agHeap, agEpochs,
                   agEpoch, agFiles, notAgent>>

NextCkpt ==
    \/ CkptMakeAgent
    \/ CkptGather
    \/ CkptRun
    \/ CkptAddToVars
    \/ CkptEpochsDone
    \/ CkptSavePolicy
    \/ CkptSaveCritic
    \/ CkptSaveFail
    \/ CkptUnlock

SpecCkpt == InitCkpt /\ [][NextCkpt]_vars

\* The agent has been built.
AgentBuilt == agPc \notin {"make", "panic"}

\* C40: saved checkpoints hold the optimized parameters. The agent MakeAgent
\* built has the very layer objects of the policy and the critic block, so
\* an update through agent.AllParameters() reaches every layer the loop
\* serializes; the files written after batch K hold, for every layer of the
\* policy and for the critic, the parameters after all the Epochs updates of
\* the batches 0..K.
C40_CheckpointOptimized ==
    /\ AgentBuilt =>
         AllParameters(agAgent) = Range(agPolicy.blocks[1].Layer) \cup {agCritic}
    /\ agPc \in {"save_critic", "unlock"} =>
         agFiles.policy = [i \in 1..Len(agPolicy.blocks[1].Layer) |->
                              (agBatch + 1) * agEpochs]
    /\ agPc = "unlock" => agFiles.critic = <<(agBatch + 1) * agEpochs>>

\* Witness of C40: the second batch of a policy of several layers has been
\* saved after two epochs each.
C40_Witness ==
    /\ agPc = "unlock"
    /\ agBatch = 1
    /\ agEpochs = 2
    /\ Len(agPolicy.blocks[1].Layer) = MaxLayers
    /\ agFiles.policy = [i \in 1..MaxLayers |-> 4]
    /\ agFiles.critic = <<4>>

(***************************************************************************)
(* ObsJoiner as a sliding window over the frames it was given.             *)
(***************************************************************************)

\* The variables a joiner call of this section leaves alone.
notWindow == <<trainVars, keyVars, envVars, obsVars, mouseVars, fetchVars,
               startVars, agentVars, cursorVars,
               keyPairVars>>

InitWindow == InitJoin

\* ObsJoiner.Reset(o_0)
WindowReset ==
    /\ \E obs \in Frames :
         /\ DoJoinerReset(obs)
         /\ fed' = <<obs>>
    /\ UNCHANGED notWindow

\* ObsJoiner.Step(o_n), at most MaxFed times after one Reset.
WindowStep ==
    /\ joinReady
    /\ Len(fed) <= MaxFed
    /\ \E obs \in Frames :
         /\ DoJoinerStep(hist, obs)
         /\ fed' = Append(fed, obs)
    /\ resetObs' = IF joinCur = <<>> THEN resetObs ELSE <<>>
    /\ UNCHANGED notWindow

NextWindow == WindowReset \/ WindowStep

SpecWindow == InitWindow /\ [][NextWindow]_vars

\* o_0 repeated HistorySize times, then o_1, ..., o_n.
FedPadded == [i \in 1..HistorySize |-> fed[1]] \o Tail(fed)

\* The last HistorySize elements of s, oldest first.
LastH(s) == SubSeq(s, Len(s) - HistorySize + 1, Len(s))

\* C30: the sliding window. After Reset(o_0), Step(o_1), ..., Step(o_n) the
\* history holds exactly HistorySize frames, the last HistorySize elements of
\* (o_0 repeated HistorySize times, o_1, ..., o_n), oldest first; the last
\* Step dropped the oldest frame of the history it found and appended its
\* argument; with HistorySize = 0 the history is empty and Step returned its
\* argument unchanged.
C30_SlidingWindow ==
    fed # <<>> =>
        /\ Len(hist) = HistorySize
        /\ hist = LastH(FedPadded)
        /\ Len(fed) > 1 =>
             /\ joinCur = fed[Len(fed)]
             /\ HistorySize > 0 => hist = Append(Tail(joinHist), joinCur)
             /\ HistorySize = 0 => (hist = <<>> /\ joined = joinCur)

\* Witness of C30: four different frames through a history of two, so that
\* the copies of o_0 and o_1 have all left the window.
C30_Witness ==
    /\ HistorySize = 2
    /\ fed = << <<0, 0>>, <<0, 1>>, <<1, 0>>, <<1, 1>> >>
    /\ hist = << <<1, 0>>, <<1, 1>> >>
    /\ joinHist = << <<0, 1>>, <<1, 0>> >>

(***************************************************************************)
(* MouseActor.Events in the discrete and in the Gaussian mode.             *)
(***************************************************************************)

\* The variables an Events call of this section leaves alone.
notCursor == <<trainVars, keyVars, joinVars, envVars, obsVars, fetchVars,
               startVars, agentVars, winVars,
               keyPairVars>>

\* The B actor of the lock-step pair, which this section does not use.
pairVars == <<bPressed, bLastX, bLastY, mouseOut, closeIn, closeOut>>

\* The finite components of vec[1:] in the Gaussian mode, in tenths.
GaussVals == {-20, -3, 0, 20}

\* An int far outside every screen: what int() of a float64 that is not
\* finite, added to the cursor, may come to on one build or another.
Far == MaxWidth + MaxHeight

\* Stands for a component of vec[1:] that is NaN, an infinity or beyond the
\* range of int; no finite component of the model is that large.
NotFinite == 100 * Far

\* int(essentials.Round(float64(n)*f/4)) for f in tenths. A negative exact
\* half rounds either way, as the library's Round decides; the conversion
\* of a component that is not finite is left to the build.
GaussSteps(n, f) ==
    IF f = NotFinite THEN {-Far, Far}
    ELSE IF f >= 0 THEN {Round(n * f, 40)}
    ELSE {-Round(-(n * f), 40), (2 * n * f + 40) \div 80}

\* The action vectors of the discrete mode (opt = -1: all of vec[1:] is
\* zero) and of the Gaussian mode.
CursorVecs ==
    IF Discrete THEN [press : {1, 9}, opt : OptIdx \cup {-1}]
    ELSE [press : {1, 9}, fx : GaussVals \cup {NotFinite},
          fy : GaussVals \cup {NotFinite}]

\* mouseCoords(vec[1:]) in either mode: the points it may return.
CursorCoords(lx, ly, vec) ==
    IF Discrete THEN {MouseCoords(lx, ly, vec.opt)}
    ELSE {<<Clamp(lx + dx, Width), Clamp(ly + dy, Height)>> :
            dx \in GaussSteps(Width, vec.fx), dy \in GaussSteps(Height, vec.fy)}

InitCursor ==
    /\ Discrete \in BOOLEAN
    /\ Width \in {1, MaxWidth}
    /\ Height \in {1, MaxHeight}
    /\ mouseNoHold \in BOOLEAN
    /\ mouseTurn = "new"
    /\ mousePressed = FALSE
    /\ lastX = 0
    /\ lastY = 0
    /\ bPressed = FALSE
    /\ bLastX = 0
    /\ bLastY = 0
    /\ mouseVec = NoVec
    /\ mouseFrom = <<0, 0>>
    /\ mouseEvents = <<>>
    /\ mouseOut = NoVec
    /\ closeIn = <<0, 0>>
    /\ closeOut = -1
    /\ IdleTrain
    /\ IdleKey
    /\ IdleJoin
    /\ IdleEnv
    /\ IdleObs
    /\ IdleFetch
    /\ IdleStart
    /\ IdleAgent
    /\ IdleWindow
    /\ IdleKeyPair

\* MouseActor.Reset()
CursorReset ==
    /\ mouseTurn' = "events"
    /\ mousePressed' = FALSE
    /\ lastX' = Width \div 2
    /\ lastY' = Height \div 2
    /\ mouseVec' = NoVec
    /\ mouseFrom' = <<Width \div 2, Height \div 2>>
    /\ mouseEvents' = <<>>
    /\ UNCHANGED <<Width, Height, mouseNoHold, Discrete, pairVars, notCursor>>

\* MouseActor.Events(vec), after a Reset.
CursorEvents ==
    /\ mouseTurn = "events"
    /\ \E vec \in CursorVecs :
         \E xy \in CursorCoords(lastX, lastY, vec) :
             LET r == EventsAt(mousePressed, lastX, lastY, vec.press > Thresh, xy)
             IN  /\ mouseVec' = vec
                 /\ mousePressed' = r.pressed
                 /\ lastX' = r.lastX
                 /\ lastY' = r.lastY
                 /\ mouseEvents' = r.events
    /\ mouseFrom' = <<lastX, lastY>>
    /\ UNCHANGED <<Width, Height, mouseNoHold, Discrete, mouseTurn, pairVars,
                   notCursor>>

NextCursor == CursorReset \/ CursorEvents

SpecCursor == InitCursor /\ [][NextCursor]_vars

\* The point (x, y) is on the screen.
OnScreen(x, y) == x \in 0..(Width - 1) /\ y \in 0..(Height - 1)

\* C31: the cursor stays on the screen. After Reset and any sequence of
\* Events calls, in either mode and for either NoHold, the stored cursor is
\* within 0..Width-1 and 0..Height-1, and so are the coordinates of every
\* event of the last Events call.
C31_CursorOnScreen ==
    mouseTurn = "events" =>
        /\ OnScreen(lastX, lastY)
        /\ \A i \in 1..Len(mouseEvents) :
             OnScreen(mouseEvents[i].x, mouseEvents[i].y)

\* Witness of C31: in the Gaussian mode a component that is not finite and
\* a step of two whole widths have driven the cursor from the centre to the
\* corner (0, Height-1), with a click at the centre before the move.
C31_Witness ==
    /\ ~Discrete
    /\ Width = MaxWidth
    /\ Height = MaxHeight
    /\ mouseVec = [press |-> 9, fx |-> NotFinite, fy |-> 20]
    /\ mouseFrom = <<Width \div 2, Height \div 2>>
    /\ <<lastX, lastY>> = <<0, Height - 1>>
    /\ Len(mouseEvents) >= 2
    /\ mouseEvents[Len(mouseEvents)].type = "mouseMoved"

(***************************************************************************)
(* MouseActor.Vectorize on the event lists of recorded steps.              *)
(***************************************************************************)

\* The variables of the A actor, which this section does not use.
actVars == <<mousePressed, lastX, lastY, mouseVec, mouseFrom>>

\* The points the recorded events carry: two corners of the screen.
EventPoints == {<<0, 0>>, <<Width - 1, Height - 1>>}

\* The mouse events a recorded step may hold.
RecordedEvents ==
    {MouseEvent(t, p[1], p[2], "left", 1) :
        t \in {"mousePressed", "mouseReleased", "mouseMoved"}, p \in EventPoints}

\* The event lists of one recorded step.
EventLists == UNION {[1..n -> RecordedEvents] : n \in 0..MaxEvents}

InitVec ==
    /\ Discrete = TRUE
    /\ Width = MaxWidth
    /\ Height = MaxHeight
    /\ mouseNoHold \in BOOLEAN
    /\ mouseTurn = "new"
    /\ mousePressed = FALSE
    /\ lastX = 0
    /\ lastY = 0
    /\ bPressed = FALSE
    /\ bLastX = 0
    /\ bLastY = 0
    /\ mouseVec = NoVec
    /\ mouseFrom = <<0, 0>>
    /\ mouseEvents = <<>>
    /\ mouseOut = NoVec
    /\ closeIn = <<0, 0>>
    /\ closeOut = -1
    /\ IdleTrain
    /\ IdleKey
    /\ IdleJoin
    /\ IdleEnv
    /\ IdleObs
    /\ IdleFetch
    /\ IdleStart
    /\ IdleAgent
    /\ IdleWindow
    /\ IdleKeyPair

\* MouseActor.Reset()
VecReset ==
    /\ mouseTurn' = "reset"
    /\ bPressed' = FALSE
    /\ bLastX' = Width \div 2
    /\ bLastY' = Height \div 2
    /\ mouseEvents' = <<>>
    /\ mouseOut' = NoVec
    /\ UNCHANGED <<Width, Height, mouseNoHold, Discrete, actVars, closeIn,
                   closeOut, notCursor>>

\* MouseActor.Vectorize(events), after a Reset.
VecCall ==
    /\ mouseTurn # "new"
    /\ \E events \in EventLists :
         LET r == MouseActorVectorize(bPressed, bLastX, bLastY, events)
         IN  /\ bPressed' = r.pressed
             /\ bLastX' = r.lastX
             /\ bLastY' = r.lastY
             /\ mouseOut' = r.vec
             /\ mouseEvents' = events
    /\ mouseTurn' = "vectorize"
    /\ UNCHANGED <<Width, Height, mouseNoHold, Discrete, actVars, closeIn,
                   closeOut, notCursor>>

NextVec == VecReset \/ VecCall

SpecVec == InitVec /\ [][NextVec]_vars

\* The indices of the events of the given types in the list.
Of(events, types) == {i \in 1..Len(events) : events[i].type \in types}

\* The greatest and the least element of a non-empty set of indices.
Last(S) == CHOOSE i \in S : \A j \in S : j <= i
First(S) == CHOOSE i \in S : \A j \in S : i <= j

\* What the event-selection policy gives for the button, held being its
\* state before the step.
PolicyPressed(held, events) ==
    IF mouseNoHold THEN Of(events, {"mousePressed"}) # {}
    ELSE LET S == Of(events, {"mousePressed", "mouseReleased"})
         IN  IF S = {} THEN held ELSE events[Last(S)].type = "mousePressed"

\* What the event-selection policy gives for the cursor, at being the
\* cursor before the step.
PolicyCursor(at, events) ==
    LET P == Of(events, {"mousePressed"})
        e == IF mouseNoHold /\ P # {} THEN events[First(P)]
             ELSE events[Len(events)]
    IN  IF events = <<>> THEN at ELSE <<e.x, e.y>>

\* The step of the model is a Vectorize call.
VecCalled == mouseTurn' = "vectorize"

\* C32: the event-selection policy of Vectorize. Without NoHold the button
\* has the state set by the last press or release event of the step, or the
\* state held before when the step has none, and the cursor is that of the
\* last event; with NoHold the press bit is 1 iff the step has a press
\* event, nothing being carried over, and the cursor is that of the first
\* press event.
C32_VectorizePolicy ==
    [][VecCalled =>
         /\ bPressed' = PolicyPressed(bPressed, mouseEvents')
         /\ (mouseOut'.press > Thresh) = PolicyPressed(bPressed, mouseEvents')
         /\ <<bLastX', bLastY'>> = PolicyCursor(<<bLastX, bLastY>>, mouseEvents')]_vars

\* C32 without the carry-over of NoHold: the policy holds whenever NoHold is
\* false or the button was not pressed before the step.
C32_PolicyButTapCarry ==
    [][(VecCalled /\ (~mouseNoHold \/ ~bPressed)) =>
         /\ bPressed' = PolicyPressed(bPressed, mouseEvents')
         /\ (mouseOut'.press > Thresh) = PolicyPressed(bPressed, mouseEvents')
         /\ <<bLastX', bLastY'>> = PolicyCursor(<<bLastX, bLastY>>, mouseEvents')]_vars

\* The failing run of C32: NoHold = true and a step without a press event
\* whose vector has the press bit set, carried over from an earlier step.
C32_StalePress ==
    /\ mouseTurn = "vectorize"
    /\ mouseNoHold
    /\ Of(mouseEvents, {"mousePressed"}) = {}
    /\ mouseOut.press > Thresh

(***************************************************************************)
(* Further claims about shutdown and the Envs of the workers.              *)
(***************************************************************************)

\* The main goroutine is past trainLock.Lock().
MainPastLock == mainPc \in {"locked", "exited"}

\* C33: no exit during a checkpoint write (TRPO / PPO). Once the main
\* goroutine is past trainLock.Lock(), and so when it returns and the
\* process exits, it holds the lock and the training loop is in no SaveAny
\* call nor between PPO's policy write and critic write nor before its
\* Unlock; and from then on no step writes a checkpoint file.
C33_NoExitDuringSave ==
    /\ []((algo \in {"trpo", "ppo"} /\ MainPastLock) =>
            /\ trainLock = "main"
            /\ tpc \notin {"save", "save_critic", "unlock"})
    /\ [][(algo \in {"trpo", "ppo"} /\ MainPastLock) =>
            /\ filePolicy' = filePolicy
            /\ fileCritic' = fileCritic]_vars

\* Witness of C33: PPO has exited after the signal with the training loop
\* stopped at its trainLock.Lock(), the checkpoint of an earlier batch on
\* disk, policy and critic from the same parameters.
C33_Witness ==
    /\ algo = "ppo"
    /\ mainPc = "exited"
    /\ trainLock = "main"
    /\ tpc = "lock"
    /\ batchIdx > 0
    /\ filePolicy >= 0
    /\ fileCritic = filePolicy

\* The process has ended: main returned, or essentials.Die or a panic.
ProcessEnded == mainPc = "exited" \/ died # "" \/ panicked # ""

\* C34: Env release on every exit path (TRPO / PPO). When the process has
\* ended, every RawEnv a worker of the last gather call opened has been
\* closed exactly once.
C34_EnvReleased ==
    (algo \in {"trpo", "ppo"} /\ ProcessEnded) =>
        \A w \in Workers : wenv[w] # NoEnv => wclosed[w] = 1

\* C34 on the paths where it holds: no RawEnv is closed twice or without
\* having been opened, and once the gather call has returned, so at every
\* save and at an end of the process by a save error, every RawEnv of the
\* call has been closed exactly once.
C34_ReleasedAfterGather ==
    algo \in {"trpo", "ppo"} =>
        /\ \A w \in Workers : wclosed[w] <= 1 /\ (wenv[w] = NoEnv => wclosed[w] = 0)
        /\ GatherReturned => \A w \in Spawned : wclosed[w] = 1

\* The failing run of C34: a rollout error has ended the process and the
\* RawEnv of the worker that called essentials.Die was never closed.
C34_LeakOnDie ==
    /\ died = "rollout error"
    /\ \E w \in Workers :
         /\ wpc[w] = "err"
         /\ wenv[w] # NoEnv
         /\ wclosed[w] = 0

(***************************************************************************)
(* Further claims about the Env.                                           *)
(***************************************************************************)

\* Env.Step has just returned without an error.
StepReturned == envRet.op = "step" /\ envRet.err = <<>>

\* C35: reward scaling. The reward a successful Env.Step returns is the
\* reward of RawEnv.Step multiplied by RewardScale when RewardScale is not
\* zero, and the reward of RawEnv.Step as it is when RewardScale is zero.
C35_RewardScaled ==
    StepReturned =>
        envRet.reward = IF RewardScale # 0 THEN rawReward * RewardScale
                        ELSE rawReward

\* What Env.Step does with the reward: it returns the reward of RawEnv.Step
\* as it is, whatever RewardScale is.
C35_RewardRaw == StepReturned => envRet.reward = rawReward

\* The failing run of C35: a spec with a RewardScale, RawEnv.Step gives the
\* reward 1 and Env.Step returns 1.
C35_Unscaled ==
    /\ StepReturned
    /\ RewardScale = 2
    /\ rawReward = 1
    /\ envRet.reward = 1

\* An Env.Step call returns an error.
StepFailed == envRet'.op = "step" /\ envRet'.err # <<>>

\* C38: a failed Env.Step leaves the bookkeeping of the episode as it was.
\* When RawEnv.Step, RawEnv.Observe or Observer.ObsVec fails in Env.Step,
\* the step counter and the history of the ObsJoiner are as before the call,
\* and the call has invoked RawEnv.Step at most once.
C38_FailedStepFrame ==
    [][StepFailed => /\ timestep' = timestep
                     /\ hist' = hist
                     /\ joinReady' = joinReady
                     /\ rawSteps' <= 1]_vars

\* Witness of C38: the second Step of an episode with a history failed in
\* ObsVec, after RawEnv.Step was called; the counter stands at one.
C38_Witness ==
    /\ envRet.op = "step"
    /\ envRet.err = <<"E_obsvec">>
    /\ HistorySize >= 1
    /\ hist # <<>>
    /\ timestep = 1
    /\ stepsOk = 1
    /\ rawSteps = 1

(***************************************************************************)
(* KeyActor.Events and KeyActor.Vectorize, two actors in lock-step.        *)
(***************************************************************************)

\* The variables a KeyActor call of this section leaves alone.
notKeyPair == <<trainVars, joinVars, envVars, obsVars, mouseVars, fetchVars,
                startVars, agentVars, winVars, cursorVars>>

\* The loop of Vectorize over the events, from event i on: the keys the
\* map p holds true at its end.
RECURSIVE VecKeyLoop(_, _, _)
VecKeyLoop(p, events, i) ==
    IF i > Len(events) THEN p
    ELSE LET e == events[i]
         IN  IF e.type = "keyDown"
               THEN VecKeyLoop(p \cup {e.code}, events, i + 1)
             ELSE IF ~NoHold /\ e.type = "keyUp"
               THEN VecKeyLoop(p \ {e.code}, events, i + 1)
             ELSE VecKeyLoop(p, events, i + 1)

\* The vector Vectorize makes from the map p: 1 (ten tenths) for a key the
\* map holds true; with OneHot the loop breaks at the first such key.
KeyVector(p) ==
    [i \in 1..Len(Keys) |->
        IF Keys[i] \in p /\ (~OneHot \/ \A j \in 1..(i - 1) : Keys[j] \notin p)
          THEN 10 ELSE 0]

\* Mutant of KeyActorVectorize: the map is not cleared under NoHold.
KeyActorVectorizeKeep(p, events) ==
    LET q == VecKeyLoop(p, events, 1)
    IN  [pressed |-> q, vec |-> KeyVector(q)]

\* KeyActor.Vectorize(events) of the actor whose map holds p true: its new
\* map and the vector. Under NoHold the map is made anew first.
KeyActorVectorize(p, events) ==
    LET q == VecKeyLoop(IF NoHold THEN {} ELSE p, events, 1)
    IN  [pressed |-> q, vec |-> KeyVector(q)]

\* The types of the events of a list that are about key k, in order.
TypesOf(events, k) ==
    LET es == SelectSeq(events, LAMBDA e : e.code = k)
    IN  [i \in 1..Len(es) |-> es[i].type]

\* The record of the last event per key, after the events of one more call.
KeyLastAfter(last, events) ==
    [k \in KeyNames |->
        IF TypesOf(events, k) = <<>> THEN last[k]
        ELSE TypesOf(events, k)[Len(TypesOf(events, k))]]

InitKeyPair ==
    /\ \E n \in 1..MaxKeys : Keys \in KeyLists(n)
    /\ NoHold \in BOOLEAN
    /\ OneHot \in BOOLEAN
    /\ keyTurn = "new"
    /\ keyReset = FALSE
    /\ pressed = {}
    /\ keyVec = <<>>
    /\ keyPrev = <<>>
    /\ keyEvents = <<>>
    /\ keyLast = [k \in KeyNames |-> "none"]
    /\ keyB = {}
    /\ keyOut = <<>>
    /\ IdleTrain
    /\ IdleJoin
    /\ IdleEnv
    /\ IdleObs
    /\ IdleMouse
    /\ IdleFetch
    /\ IdleStart
    /\ IdleAgent
    /\ IdleWindow
    /\ IdleCursor

\* A.Reset() and B.Reset()
KeyPairReset ==
    /\ keyTurn \in {"new", "events"}
    /\ keyTurn' = "events"
    /\ keyReset' = TRUE
    /\ pressed' = KeyActorReset
    /\ keyB' = KeyActorReset
    /\ keyVec' = <<>>
    /\ keyPrev' = <<>>
    /\ keyEvents' = <<>>
    /\ keyLast' = [k \in KeyNames |-> "none"]
    /\ keyOut' = <<>>
    /\ UNCHANGED <<Keys, NoHold, OneHot, notKeyPair>>

\* A.Events(vec)
KeyPairEvents ==
    /\ keyTurn = "events"
    /\ \E vec \in [1..Len(Keys) -> VecVals] :
         /\ pressed' = KeyActorEvents(vec).pressed
         /\ keyEvents' = KeyActorEvents(vec).events
         /\ keyLast' = KeyLastAfter(keyLast, KeyActorEvents(vec).events)
         /\ keyVec' = vec
         /\ keyPrev' = keyVec
    /\ keyTurn' = "vectorize"
    /\ UNCHANGED <<Keys, NoHold, OneHot, keyReset, keyB, keyOut, notKeyPair>>

\* B.Vectorize(events), events being what A.Events returned.
KeyPairVectorize ==
    /\ keyTurn = "vectorize"
    /\ keyB' = KeyActorVectorize(keyB, keyEvents).pressed
    /\ keyOut' = KeyActorVectorize(keyB, keyEvents).vec
    /\ keyTurn' = "events"
    /\ UNCHANGED <<Keys, NoHold, OneHot, keyReset, pressed, keyVec, keyPrev,
                   keyEvents, keyLast, notKeyPair>>

NextKeyPair == KeyPairReset \/ KeyPairEvents \/ KeyPairVectorize

SpecKeyPair == InitKeyPair /\ [][NextKeyPair]_vars

\* The types ts follow an event of type last in strict alternation, a
\* KeyDown coming first when no event or a KeyUp came before.
RECURSIVE Alternates(_, _)
Alternates(last, ts) ==
    IF ts = <<>> THEN TRUE
    ELSE /\ Head(ts) = (IF last = "keyDown" THEN "keyUp" ELSE "keyDown")
         /\ Alternates(Head(ts), Tail(ts))

\* C37: hold-mode alternation. With NoHold = false, the events every Events
\* call emits for a key carry on the strict alternation KeyDown, KeyUp,
\* KeyDown, ... of the events emitted for that key since the Reset, and after
\* every call pressed[key] is true exactly when the last event emitted for
\* the key since the Reset is a KeyDown.
C37_Alternation ==
    /\ []((~NoHold /\ keyReset) =>
            \A k \in KeyNames : (k \in pressed) <=> (keyLast[k] = "keyDown"))
    /\ [][(~NoHold /\ keyTurn = "events" /\ keyTurn' = "vectorize") =>
            \A k \in KeyNames : Alternates(keyLast[k], TypesOf(keyEvents', k))]_vars

\* Witness of C37: Left went down and up again, Right went down in the call
\* that released Left.
C37_Witness ==
    /\ ~NoHold
    /\ Keys = <<"Left", "Right">>
    /\ keyLast["Left"] = "keyUp"
    /\ keyLast["Right"] = "keyDown"
    /\ pressed = {"Right"}
    /\ keyEvents = <<KeyEvent("Left", "keyUp"), KeyEvent("Right", "keyDown")>>

\* C39: KeyActor round trip. With OneHot = false, after every lock-step
\* step B.Vectorize(A.Events(v)) is the vector with 1 exactly at the
\* components of v above 0.5, for NoHold = false and NoHold = true.
C39_RoundTrip ==
    (~OneHot /\ keyTurn = "events" /\ keyOut # <<>>) =>
        keyOut = [i \in 1..Len(Keys) |-> IF keyVec[i] > Thresh THEN 10 ELSE 0]

\* Witness of C39: NoHold = true, [0.9, 0.1] then [0.1, 0.9]: B gives
\* [0, 1], the press of the step before is not carried over.
C39_Witness ==
    /\ NoHold
    /\ ~OneHot
    /\ keyTurn = "events"
    /\ keyPrev = <<9, 1>>
    /\ keyVec = <<1, 9>>
    /\ keyOut = <<0, 10>>

\* Second witness of C39: NoHold = false, a key held over two steps, for
\* which the second A.Events call emits nothing: B still gives 1.
C39_HoldWitness ==
    /\ ~NoHold
    /\ ~OneHot
    /\ keyTurn = "events"
    /\ keyPrev = <<9, 1>>
    /\ keyVec = <<9, 5>>
    /\ keyEvents = <<>>
    /\ keyOut = <<10, 0>>

====
